---- MODULE Spec2Model ----
(***************************************************************************)
(* Webview side of the markdown editor: the decoration controller          *)
(* (applyDecorationsToVditor / clearDecorations), its deferred timers, the *)
(* line-to-element mapping it runs against the rendered IR tree, the       *)
(* selection resolver (getSelectionLineRange) and the selection menu.      *)
(*                                                                         *)
(* The specifications share the variables: Spec runs the decoration       *)
(* controller, ResolverSpec applies the selection resolver to buffers and  *)
(* selected texts, MapperSpec builds the line-to-element mapping, TagSpec  *)
(* runs the whole render callback and a clearDecorations() after it,       *)
(* UpdateSpec adds the 'update' message, MenuSpec runs the selection       *)
(* menu's event handlers; on the extension host's side SyncSpec runs one   *)
(* EditorPanel's synchronization with its document, KeepSpec its handler   *)
(* of 'cline-keep-changes' and RegistrySpec the registry of panels.        *)
(*                                                                         *)
(* Texts are sequences of one-character strings.  Time is not counted: a   *)
(* pending timer may fire once no timer scheduled before it with a delay   *)
(* no longer than its own is still pending (that one's deadline is         *)
(* earlier).                                                               *)
(***************************************************************************)
EXTENDS Integers, Sequences, FiniteSets, TLC

VARIABLES
    vditor,          \* window.vditor is set
    irContainer,     \* document.querySelector('.vditor-ir') finds the tree
    currentMode,     \* window.vditor.vditor.currentMode
    previousMode,    \* module-level previousMode (NULL or a mode)
    toolbarVisible,  \* #cline-floating-toolbar exists and has class 'visible'
    tags,            \* node index -> set of decoration classes on the node
    timers,          \* pending setTimeout callbacks, in scheduling order
    scene,           \* which (document, rendered tree) pair the editor shows
    log,             \* history: decoration messages handled so far, in order
    exhausted,       \* history: the latest message's retries hit the ceiling
    sourceMarkdown,  \* vditor.getValue(): the markdown buffer
    selection,       \* window.getSelection().toString()
    currentSelection,\* currentSelection of initSelectionContextMenu
    menuVisible,     \* #selection-context-menu has class 'visible'
    hideTimeout,     \* hideTimeout holds a pending timer
    justAddedToChat, \* justAddedToChat of initSelectionContextMenu
    menuTimers,      \* pending timers of the selection menu, in scheduling order
    posted,          \* messages handed to vscode.postMessage, in order
    outcome,         \* history: what the latest call of the resolver from the
                     \* mouseup callback gave ("none", "match", "nomatch")
    rendered,        \* the elements of the IR tree the mapping is built on
    lineToElementMap,\* lineToElementMap: line index -> element (0: none)
    usedElements,    \* usedElements
    elementIndex,    \* elementIndex of Strategy 2
    mapStage,        \* how far the building of the mapping has come
    appliedDecorations, \* decorations of the render callback being run
    panelUri,        \* EditorPanel._uri of each panel (NoUri: not created)
    disposedPanels,  \* the panels whose dispose() has run
    panels,          \* EditorPanel.panels: uri -> panel (0: no entry)
    currentPanel,    \* EditorPanel.currentPanel (0: undefined)
    opening,         \* createOrShow calls awaiting openTextDocument
    docText,         \* this._document.getText()
    docSaved,        \* the text last written by this._document.save()
    webviewText,     \* vditor.getValue() in the panel's webview
    panelActive,     \* this._panel.active
    initialized,     \* this._initialized
    readyPending,    \* the webview has not sent 'ready' yet
    fallbackTimer,   \* fallbackTimer of _init is pending
    lastEditFromWebview, \* lastEditFromWebview of the constructor
    textEditTimer,   \* textEditTimer is pending
    changeEvents,    \* onDidChangeTextDocument events not yet delivered
    pendingEdits,    \* 'edit' handlers awaiting workspace.applyEdit
    hostPosted,      \* messages handed to webview.postMessage, in order
    keep,            \* the running 'cline-keep-changes' handler
    hostLog,         \* history: applyEdit, save and accept calls of the handler
    unpushed,        \* history: a change from outside not yet in an 'update'
    lastInput,       \* history: the latest command or message from outside
    hostInputs       \* history: how many of those there were

\* the state of the decoration controller
decoVars == <<vditor, irContainer, currentMode, previousMode, toolbarVisible,
              tags, timers, scene, log, exhausted>>

\* the state of the selection resolver and the selection menu
selVars == <<sourceMarkdown, selection, currentSelection, menuVisible,
             hideTimeout, justAddedToChat, menuTimers, posted, outcome>>

\* the state of the building of the line-to-element mapping
mapVars == <<rendered, lineToElementMap, usedElements, elementIndex, mapStage,
             appliedDecorations>>

\* the state of the extension host: the registry of panels and one panel
hostVars == <<panelUri, disposedPanels, panels, currentPanel, opening,
              docText, docSaved, webviewText, panelActive, initialized,
              readyPending, fallbackTimer, lastEditFromWebview, textEditTimer,
              changeEvents, pendingEdits, hostPosted, keep, hostLog, unpushed,
              lastInput, hostInputs>>

\* what the handlers of the decoration controller leave alone
outsideDeco == <<selVars, mapVars, hostVars>>

vars == <<decoVars, selVars, mapVars, hostVars>>

----------------------------------------------------------------------------
(* Bounds of the model *)

\* decoration messages sent to the webview
MaxMsgs == 3
\* an apply-decorations message arrives while fewer than this many timers pend
MaxPending == 2
\* longest buffer of the enumerated buffers
MaxTextLen == 4
\* longest selected text of the enumerated selections
MaxSelLen == 3
\* most lines of an enumerated buffer the mapping is built for
MaxLines == 3
\* most elements of an enumerated IR tree
MaxNodes == 3
\* a mouseup or a click arrives while fewer than this many menu timers pend
MaxMenuTimers == 2
\* selection-action messages posted
MaxPosted == 2

----------------------------------------------------------------------------
(* Program constants *)

RetryCeiling == 5
RenderDelay == 200
RetryDelay == 200
EngineWaitDelay == 500
MouseUpDelay == 10
HideDelay == 100
FlagResetDelay == 200
ClearSelectionDelay == 100
PrefixLen1 == 20
PrefixLen2 == 15

NULL == "null"
Modes == {"wysiwyg", "ir", "sv"}
DefaultMode == "ir"
Classes == {"cline-added-line", "cline-deleted-line", "cline-modified-line"}

----------------------------------------------------------------------------
(* String helpers: String.prototype.trim / replace(/\s+/g,' ') / includes /
   substring, on sequences of characters *)

Min(a, b) == IF a < b THEN a ELSE b

IsSpace(c) == c \in {" ", "\t", "\n"}

RECURSIVE TrimStart(_)
TrimStart(s) ==
    IF s = <<>> THEN s
    ELSE IF IsSpace(Head(s)) THEN TrimStart(Tail(s)) ELSE s

RECURSIVE TrimEnd(_)
TrimEnd(s) ==
    IF s = <<>> THEN s
    ELSE IF IsSpace(s[Len(s)]) THEN TrimEnd(SubSeq(s, 1, Len(s) - 1)) ELSE s

Trim(s) == TrimEnd(TrimStart(s))

RECURSIVE CollapseWs(_)
CollapseWs(s) ==
    IF s = <<>> THEN <<>>
    ELSE IF IsSpace(Head(s)) THEN <<" ">> \o CollapseWs(TrimStart(s))
    ELSE <<Head(s)>> \o CollapseWs(Tail(s))

Includes(hay, needle) ==
    \E i \in 0..(Len(hay) - Len(needle)) :
        SubSeq(hay, i + 1, i + Len(needle)) = needle

Prefix(s, n) == SubSeq(s, 1, Min(n, Len(s)))

----------------------------------------------------------------------------
(* The documents and rendered trees the editor can show.  A node is an
   element of the IR tree in document order: its textContent, its parent
   element (0: the container itself or an element outside both selectors),
   whether it carries class vditor-ir__node, and whether the block selector
   (line 1539) and the last-resort selector (line 1654) select it. *)

Node(t, p, ir, b, a) == [text |-> t, parent |-> p, irNode |-> ir, block |-> b, any |-> a]

Scenes == 1..2

\* scene 1: "ab\n\ncd\ncd", a paragraph and a code block in its wrapper;
\* scene 2: "xy", a table cell and a plain div
SceneLines(sc) ==
    CASE sc = 1 -> << <<"a","b">>, <<>>, <<"c","d">>, <<"c","d">> >>
      [] sc = 2 -> << <<"x","y">> >>

SceneNodes(sc) ==
    CASE sc = 1 -> << Node(<<"a","b">>, 0, FALSE, TRUE, TRUE),
                      Node(<<"c","d">>, 0, TRUE, TRUE, TRUE),
                      Node(<<"c","d">>, 2, FALSE, TRUE, TRUE) >>
      [] sc = 2 -> << Node(<<"z","z">>, 0, FALSE, TRUE, FALSE),
                      Node(<<" ","x","y"," ">>, 0, FALSE, FALSE, TRUE) >>

\* the scenes the decoration controller is run on
ControllerScenes == {1}

NodeIds(sc) == 1..Len(SceneNodes(sc))

NoTags(sc) == [n \in NodeIds(sc) |-> {}]

----------------------------------------------------------------------------
(* Line-to-element mapping built inside the render callback *)

SetMin(S) == CHOOSE x \in S : \A y \in S : x <= y

\* allBlockElements: the nodes the block selector finds, in document order
BlockEls(nodes) ==
    SelectSeq([i \in 1..Len(nodes) |-> i], LAMBDA i : nodes[i].block)

\* allElements of the last-resort search
AnyEls(nodes) ==
    SelectSeq([i \in 1..Len(nodes) |-> i], LAMBDA i : nodes[i].any)

NormalizeWs(s) == Trim(CollapseWs(s))

\* the test of Strategy 1 without its third disjunct
Match1NoPrefix(elText, lineText) ==
    LET normalizedElText == NormalizeWs(elText)
        normalizedLineText == NormalizeWs(lineText)
    IN  \/ normalizedElText = normalizedLineText
        \/ Includes(normalizedElText, normalizedLineText)

\* the test of Strategy 1 on one element and one trimmed line
Match1(elText, lineText) ==
    LET normalizedElText == NormalizeWs(elText)
        normalizedLineText == NormalizeWs(lineText)
    IN  \/ normalizedElText = normalizedLineText
        \/ Includes(normalizedElText, normalizedLineText)
        \/ /\ Len(normalizedLineText) > PrefixLen1
           /\ Includes(normalizedElText, Prefix(normalizedLineText, PrefixLen1))

\* the test of Strategy 2 on one element and one trimmed line
Match2(elTextRaw, lineText) ==
    LET elText == Trim(elTextRaw)
    IN  /\ elText # <<>>
        /\ \/ Includes(elText, Prefix(lineText, PrefixLen2))
           \/ Includes(lineText, Prefix(elText, PrefixLen2))

EmptyMap(lines) == [i \in 0..(Len(lines) - 1) |-> 0]

\* Strategy 1 without the test usedElements.has(el)
RECURSIVE Strategy1NoReserve(_, _, _, _)
Strategy1NoReserve(lines, nodes, i, acc) ==
    IF i >= Len(lines) THEN acc
    ELSE
        LET line == lines[i + 1]
            els  == BlockEls(nodes)
            cand == {k \in 1..Len(els) : Match1(nodes[els[k]].text, Trim(line))}
        IN  IF Trim(line) # <<>> /\ cand # {}
            THEN LET el == els[SetMin(cand)]
                 IN  Strategy1NoReserve(lines, nodes, i + 1,
                               [map  |-> [acc.map EXCEPT ![i] = el],
                                used |-> acc.used \cup {el}])
            ELSE Strategy1NoReserve(lines, nodes, i + 1, acc)

\* Strategy 1: lines.forEach, from line i on; acc = [map, used]
RECURSIVE Strategy1(_, _, _, _)
Strategy1(lines, nodes, i, acc) ==
    IF i >= Len(lines) THEN acc
    ELSE
        LET line == lines[i + 1]
            els  == BlockEls(nodes)
            cand == {k \in 1..Len(els) :
                        /\ els[k] \notin acc.used
                        /\ Match1(nodes[els[k]].text, Trim(line))}
        IN  IF Trim(line) # <<>> /\ cand # {}
            THEN LET el == els[SetMin(cand)]
                 IN  Strategy1(lines, nodes, i + 1,
                               [map  |-> [acc.map EXCEPT ![i] = el],
                                used |-> acc.used \cup {el}])
            ELSE Strategy1(lines, nodes, i + 1, acc)

\* Strategy 2 without the assignment elementIndex = i + 1
RECURSIVE Strategy2NoAdvance(_, _, _, _)
Strategy2NoAdvance(lines, nodes, i, acc) ==
    IF i >= Len(lines) THEN acc
    ELSE
        LET line == lines[i + 1]
            els  == BlockEls(nodes)
            cand == {k \in acc.elementIndex..(Len(els) - 1) :
                        /\ els[k + 1] \notin acc.used
                        /\ Match2(nodes[els[k + 1]].text, Trim(line))}
        IN  IF /\ acc.map[i] = 0
               /\ Trim(line) # <<>>
               /\ acc.elementIndex < Len(els)
               /\ cand # {}
            THEN LET k  == SetMin(cand)
                     el == els[k + 1]
                 IN  Strategy2NoAdvance(lines, nodes, i + 1,
                               [map  |-> [acc.map EXCEPT ![i] = el],
                                used |-> acc.used \cup {el},
                                elementIndex |-> acc.elementIndex])
            ELSE Strategy2NoAdvance(lines, nodes, i + 1, acc)

\* Strategy 2: lines.forEach, from line i on; acc = [map, used, elementIndex]
RECURSIVE Strategy2(_, _, _, _)
Strategy2(lines, nodes, i, acc) ==
    IF i >= Len(lines) THEN acc
    ELSE
        LET line == lines[i + 1]
            els  == BlockEls(nodes)
            cand == {k \in acc.elementIndex..(Len(els) - 1) :
                        /\ els[k + 1] \notin acc.used
                        /\ Match2(nodes[els[k + 1]].text, Trim(line))}
        IN  IF /\ acc.map[i] = 0
               /\ Trim(line) # <<>>
               /\ acc.elementIndex < Len(els)
               /\ cand # {}
            THEN LET k  == SetMin(cand)
                     el == els[k + 1]
                 IN  Strategy2(lines, nodes, i + 1,
                               [map  |-> [acc.map EXCEPT ![i] = el],
                                used |-> acc.used \cup {el},
                                elementIndex |-> k + 1])
            ELSE Strategy2(lines, nodes, i + 1, acc)

\* Strategy 3 with afterElement taken before beforeElement
RECURSIVE Strategy3AfterFirst(_, _, _)
Strategy3AfterFirst(lines, i, map) ==
    IF i >= Len(lines) THEN map
    ELSE
        LET before == {j \in 0..(i - 1) : map[j] # 0}
            after  == {j \in (i + 1)..(Len(lines) - 1) : map[j] # 0}
            beforeElement ==
                IF before = {} THEN 0
                ELSE map[CHOOSE j \in before : \A k \in before : k <= j]
            afterElement ==
                IF after = {} THEN 0 ELSE map[SetMin(after)]
        IN  IF map[i] # 0 THEN Strategy3AfterFirst(lines, i + 1, map)
            ELSE IF afterElement # 0
                 THEN Strategy3AfterFirst(lines, i + 1, [map EXCEPT ![i] = afterElement])
            ELSE IF beforeElement # 0
                 THEN Strategy3AfterFirst(lines, i + 1, [map EXCEPT ![i] = beforeElement])
            ELSE Strategy3AfterFirst(lines, i + 1, map)

\* Strategy 3: lines.forEach, from line i on, on the map itself
RECURSIVE Strategy3(_, _, _)
Strategy3(lines, i, map) ==
    IF i >= Len(lines) THEN map
    ELSE
        LET before == {j \in 0..(i - 1) : map[j] # 0}
            after  == {j \in (i + 1)..(Len(lines) - 1) : map[j] # 0}
            beforeElement ==
                IF before = {} THEN 0
                ELSE map[CHOOSE j \in before : \A k \in before : k <= j]
            afterElement ==
                IF after = {} THEN 0 ELSE map[SetMin(after)]
        IN  IF map[i] # 0 THEN Strategy3(lines, i + 1, map)
            ELSE IF beforeElement # 0
                 THEN Strategy3(lines, i + 1, [map EXCEPT ![i] = beforeElement])
            ELSE IF afterElement # 0
                 THEN Strategy3(lines, i + 1, [map EXCEPT ![i] = afterElement])
            ELSE Strategy3(lines, i + 1, map)

\* lineToElementMap after the three strategies (0: the line has no element)
LineToElementMap(lines, nodes) ==
    LET s1 == Strategy1(lines, nodes, 0, [map |-> EmptyMap(lines), used |-> {}])
        s2 == Strategy2(lines, nodes, 0,
                        [map |-> s1.map, used |-> s1.used, elementIndex |-> 0])
    IN  Strategy3(lines, 0, s2.map)

\* the element the last-resort search of applyDecorationToLine finds (0: none)
LastResort(lines, nodes, lineNum) ==
    LET lineText == Trim(lines[lineNum + 1])
        els  == AnyEls(nodes)
        cand == {k \in 1..Len(els) :
                    \/ Includes(nodes[els[k]].text, lineText)
                    \/ /\ Len(lineText) > PrefixLen2
                       /\ Includes(nodes[els[k]].text, Prefix(lineText, PrefixLen2))}
    IN  IF lineText # <<>> /\ cand # {} THEN els[SetMin(cand)] ELSE 0

\* applyDecorationToLine bringing lineNum into range instead of returning
LineTargetsClamped(lines, nodes, map, lineNum) ==
    LET n == IF lineNum < 0 THEN 0
             ELSE IF lineNum >= Len(lines) THEN Len(lines) - 1 ELSE lineNum
    IN  IF map[n] # 0
        THEN LET element == map[n]
                 parent  == nodes[element].parent
             IN  {element} \cup
                 (IF parent # 0 /\ nodes[parent].irNode THEN {parent} ELSE {})
        ELSE LET found == LastResort(lines, nodes, n)
             IN  IF found # 0 THEN {found} ELSE {}

\* applyDecorationToLine: the nodes that receive the class for lineNum
LineTargets(lines, nodes, map, lineNum) ==
    IF lineNum < 0 \/ lineNum >= Len(lines) THEN {}
    ELSE IF map[lineNum] # 0
    THEN LET element == map[lineNum]
             parent  == nodes[element].parent
         IN  {element} \cup
             (IF parent # 0 /\ nodes[parent].irNode THEN {parent} ELSE {})
    ELSE LET found == LastResort(lines, nodes, lineNum)
         IN  IF found # 0 THEN {found} ELSE {}

\* the three forEach loops with a line given only the first of its classes
DecorateFirstClass(lines, nodes, map, decorations, old) ==
    LET hit(set) == UNION {LineTargets(lines, nodes, map, n) : n \in set}
    IN  [n \in DOMAIN old |->
            old[n]
            \cup (IF n \in hit(decorations.added) THEN {"cline-added-line"} ELSE {})
            \cup (IF n \in hit(decorations.deleted \ decorations.added)
                  THEN {"cline-deleted-line"} ELSE {})
            \cup (IF n \in hit(decorations.modified
                                \ (decorations.added \cup decorations.deleted))
                  THEN {"cline-modified-line"} ELSE {})]

\* the three forEach loops of lines 1667-1669, given lineToElementMap, on the
\* classes already present
DecorateWith(lines, nodes, map, decorations, old) ==
    LET hit(set) == UNION {LineTargets(lines, nodes, map, n) : n \in set}
    IN  [n \in DOMAIN old |->
            old[n]
            \cup (IF n \in hit(decorations.added) THEN {"cline-added-line"} ELSE {})
            \cup (IF n \in hit(decorations.deleted) THEN {"cline-deleted-line"} ELSE {})
            \cup (IF n \in hit(decorations.modified) THEN {"cline-modified-line"} ELSE {})]

\* the mapping and the three forEach loops of one render callback
Decorate(lines, nodes, decorations, old) ==
    DecorateWith(lines, nodes, LineToElementMap(lines, nodes), decorations, old)

Touched(decorations) ==
    decorations.added \cup decorations.deleted \cup decorations.modified

\* lines 1671-1673 with showFloatingToolbar() never called
ToolbarNeverShown(decorations, visible) == visible

\* lines 1671-1673: the toolbar's visibility after the callback
ToolbarAfterCallback(decorations, visible) ==
    IF Touched(decorations) # {} THEN TRUE ELSE visible

----------------------------------------------------------------------------
(* Change sets carried by apply-decorations messages *)

\* msg.decorations missing from the message
NoDecorations == [undefined |-> TRUE]
ChangeSet(a, d, m) == [added |-> a, deleted |-> d, modified |-> m]
EmptyCS == ChangeSet({}, {}, {})
CSA == ChangeSet({}, {}, {0})
CSB == ChangeSet({1, 3}, {}, {})
Decorations == {NoDecorations, EmptyCS, CSA, CSB}
RealChangeSets == Decorations \ {NoDecorations}
NonEmptyChangeSets == {d \in RealChangeSets : Touched(d) # {}}

----------------------------------------------------------------------------
(* Timers.  kind "wait": the 500 ms deferral of the message handler;
   "render": the 200 ms callback of applyDecorationsToVditor; "retry": the
   200 ms callback that calls applyDecorationsToVditor(decorations, retry).
   hist is history: origin, the position in log of the message the chain of
   attempts began at; retryAt, the length of log when the chain's latest
   retry was scheduled (0: no retry yet); stale, whether that retry fired
   after a clear-decorations and then an apply-decorations of a non-empty
   change set had been handled while it was pending. *)

Timer(kind, decorations, retry, delay, hist) ==
    [kind |-> kind, dec |-> decorations, retry |-> retry,
     delay |-> delay, hist |-> hist]

Hist(origin, retryAt, stale) ==
    [origin |-> origin, retryAt |-> retryAt, stale |-> stale]

\* after the first k messages a clear-decorations and then an
\* apply-decorations of a non-empty change set came
ClearThenApplyAfter(k) ==
    \E j \in (k + 1)..Len(log) : \E m \in (j + 1)..Len(log) :
        /\ log[j].kind = "clear"
        /\ log[m].kind = "apply" /\ log[m].dec \in NonEmptyChangeSets

\* the part of the state the decoration functions write
Deco == [tags |-> tags, previousMode |-> previousMode,
         toolbarVisible |-> toolbarVisible, timers |-> timers]

\* clearDecorations() toggling the toolbar's class instead of removing it
ClearDecorationsToggle(st) ==
    IF ~vditor THEN st
    ELSE IF ~irContainer THEN st
    ELSE [st EXCEPT !.tags = [n \in DOMAIN st.tags |-> st.tags[n] \ Classes],
                    !.previousMode = NULL,
                    !.toolbarVisible = ~@]

\* clearDecorations()
ClearDecorations(st) ==
    IF ~vditor THEN st
    ELSE IF ~irContainer THEN st
    ELSE [st EXCEPT !.tags = [n \in DOMAIN st.tags |-> st.tags[n] \ Classes],
                    !.previousMode = NULL,
                    !.toolbarVisible = FALSE]

\* applyDecorationsToVditor(decorations, retry), up to its setTimeout
ApplyDecorationsToVditor(st, decorations, retry, hist) ==
    IF ~vditor \/ decorations = NoDecorations THEN st
    ELSE
        LET cleared == ClearDecorations(st)
            saved   == IF cleared.previousMode = NULL
                       THEN [cleared EXCEPT !.previousMode = currentMode]
                       ELSE cleared
        IN  [saved EXCEPT !.timers =
                Append(@, Timer("render", decorations, retry, RenderDelay, hist))]

\* the callback with the ceiling tested off by one (retry <= 5)
RenderCallbackOffByOne(st, t) ==
    IF ~irContainer \/ ~vditor
    THEN IF t.retry <= RetryCeiling
         THEN [st EXCEPT !.timers =
                 Append(@, Timer("retry", t.dec, t.retry + 1, RetryDelay,
                                 Hist(t.hist.origin, Len(log), FALSE)))]
         ELSE st
    ELSE [st EXCEPT
            !.tags = Decorate(SceneLines(scene), SceneNodes(scene), t.dec, @),
            !.toolbarVisible = ToolbarAfterCallback(t.dec, @)]

\* the callback applyDecorationsToVditor hands to setTimeout
RenderCallback(st, t) ==
    IF ~irContainer \/ ~vditor
    THEN IF t.retry < RetryCeiling
         THEN [st EXCEPT !.timers =
                 Append(@, Timer("retry", t.dec, t.retry + 1, RetryDelay,
                                 Hist(t.hist.origin, Len(log), FALSE)))]
         ELSE st
    ELSE [st EXCEPT
            !.tags = Decorate(SceneLines(scene), SceneNodes(scene), t.dec, @),
            !.toolbarVisible = ToolbarAfterCallback(t.dec, @)]

\* what a due timer runs
RunTimer(st, t) ==
    CASE t.kind = "wait"   -> ApplyDecorationsToVditor(st, t.dec, 0, t.hist)
      [] t.kind = "retry"  ->
            ApplyDecorationsToVditor(st, t.dec, t.retry,
                Hist(t.hist.origin, t.hist.retryAt,
                     ClearThenApplyAfter(t.hist.retryAt)))
      [] t.kind = "render" -> RenderCallback(st, t)

RemoveAt(seq, i) == SubSeq(seq, 1, i - 1) \o SubSeq(seq, i + 1, Len(seq))

\* timer i can be the next to fire: every timer scheduled before it that is
\* still pending has a longer delay
Due(i) ==
    \A j \in 1..(i - 1) : timers[j].delay > timers[i].delay

SetDeco(st) ==
    /\ tags' = st.tags
    /\ previousMode' = st.previousMode
    /\ toolbarVisible' = st.toolbarVisible
    /\ timers' = st.timers

----------------------------------------------------------------------------
(* Line indexing: String.prototype.split('\n'), Array.prototype.join('\n'),
   String.prototype.indexOf, and the cumulative scan of
   getSelectionLineRange that turns an offset into a line and a column *)

\* positions (0-based) at which needle occurs in hay
Occurrences(hay, needle) ==
    {i \in 0..(Len(hay) - Len(needle)) :
        SubSeq(hay, i + 1, i + Len(needle)) = needle}

\* hay.indexOf(needle)
IndexOf(hay, needle) ==
    IF Occurrences(hay, needle) = {} THEN -1
    ELSE SetMin(Occurrences(hay, needle))

\* a split that discards trailing empty segments
RECURSIVE SplitDropTrailing(_)
SplitDropTrailing(text) ==
    LET nl == IndexOf(text, <<"\n">>)
        rest == SubSeq(text, nl + 2, Len(text))
    IN  IF nl = -1 THEN <<text>>
        ELSE IF \A k \in 1..Len(rest) : rest[k] = "\n"
             THEN <<SubSeq(text, 1, nl)>>
             ELSE <<SubSeq(text, 1, nl)>> \o SplitDropTrailing(rest)

\* text.split('\n')
RECURSIVE Split(_)
Split(text) ==
    LET nl == IndexOf(text, <<"\n">>)
    IN  IF nl = -1 THEN <<text>>
        ELSE <<SubSeq(text, 1, nl)>> \o Split(SubSeq(text, nl + 2, Len(text)))

\* lines.join('\n')
RECURSIVE Join(_)
Join(lines) ==
    IF lines = <<>> THEN <<>>
    ELSE IF Len(lines) = 1 THEN lines[1]
    ELSE lines[1] \o <<"\n">> \o Join(Tail(lines))

\* charCount when the scan reaches line i: the lines before i, each counted
\* with its newline
RECURSIVE CharCount(_, _)
CharCount(lines, i) ==
    IF i = 0 THEN 0 ELSE CharCount(lines, i - 1) + Len(lines[i]) + 1

\* the scan with the newline left out of lineLength
OffsetToLineColNoNewline(lines, index, defaultLine, defaultChar) ==
    LET hits == {i \in 0..(Len(lines) - 1) :
                    CharCount(lines, i) + Len(lines[i + 1]) > index}
    IN  IF hits = {} THEN [line |-> defaultLine, char |-> defaultChar]
        ELSE [line |-> SetMin(hits),
              char |-> index - CharCount(lines, SetMin(hits))]

\* the scan of lines 1150-1158 and 1166-1174: the first line i with
\* charCount + lineLength > index, or the defaults when the loop ends
\* without a break
OffsetToLineCol(lines, index, defaultLine, defaultChar) ==
    LET hits == {i \in 0..(Len(lines) - 1) :
                    CharCount(lines, i) + Len(lines[i + 1]) + 1 > index}
    IN  IF hits = {} THEN [line |-> defaultLine, char |-> defaultChar]
        ELSE [line |-> SetMin(hits),
              char |-> index - CharCount(lines, SetMin(hits))]

----------------------------------------------------------------------------
(* getSelectionLineRange *)

\* the function returns null
NullSelection == [isNull |-> TRUE]

SelectionInfo(text, startLine, endLine, startChar, endChar) ==
    [text |-> text, startLine |-> startLine, endLine |-> endLine,
     startChar |-> startChar, endChar |-> endChar]

\* the inner while of lines 1111-1113: originalPos moved to the last
\* character of the whitespace run it stands in
RECURSIVE SkipRun(_, _)
SkipRun(source, originalPos) ==
    IF originalPos < Len(source) - 1 /\ IsSpace(source[originalPos + 2])
    THEN SkipRun(source, originalPos + 1)
    ELSE originalPos

\* the mapping back without the skip over a whitespace run
MapBackNoSkip(source, originalPos, normalizedPos, normalizedMatchIndex) ==
    Min(originalPos + (normalizedMatchIndex - normalizedPos), Len(source))

\* the while of lines 1108-1117: originalPos when the loop ends
RECURSIVE MapBack(_, _, _, _)
MapBack(source, originalPos, normalizedPos, normalizedMatchIndex) ==
    IF normalizedPos < normalizedMatchIndex /\ originalPos < Len(source)
    THEN LET skipped == IF IsSpace(source[originalPos + 1])
                        THEN SkipRun(source, originalPos)
                        ELSE originalPos
         IN  MapBack(source, skipped + 1, normalizedPos + 1, normalizedMatchIndex)
    ELSE originalPos

\* hay.lastIndexOf(needle)
LastIndexOf(hay, needle) ==
    IF Occurrences(hay, needle) = {} THEN -1
    ELSE CHOOSE i \in Occurrences(hay, needle) :
            \A j \in Occurrences(hay, needle) : j <= i

\* the exact search taking the last occurrence
MatchIndexLast(source, selectedText) ==
    LET normalizedSelection == Trim(CollapseWs(selectedText))
        exact == LastIndexOf(source, selectedText)
        normalizedSource == CollapseWs(source)
        normalizedMatchIndex == IndexOf(normalizedSource, normalizedSelection)
    IN  IF exact # -1 THEN exact
        ELSE IF normalizedMatchIndex # -1
             THEN MapBack(source, 0, 0, normalizedMatchIndex)
             ELSE -1

\* the normalized search tried before the exact one
MatchIndexNormalizedFirst(source, selectedText) ==
    LET normalizedSelection == Trim(CollapseWs(selectedText))
        exact == IndexOf(source, selectedText)
        normalizedSource == CollapseWs(source)
        normalizedMatchIndex == IndexOf(normalizedSource, normalizedSelection)
    IN  IF normalizedMatchIndex # -1
        THEN MapBack(source, 0, 0, normalizedMatchIndex)
        ELSE exact

\* matchIndex after the exact and the normalized search (lines 1093-1120)
MatchIndex(source, selectedText) ==
    LET normalizedSelection == Trim(CollapseWs(selectedText))
        exact == IndexOf(source, selectedText)
        normalizedSource == CollapseWs(source)
        normalizedMatchIndex == IndexOf(normalizedSource, normalizedSelection)
    IN  IF exact # -1 THEN exact
        ELSE IF normalizedMatchIndex # -1
             THEN MapBack(source, 0, 0, normalizedMatchIndex)
             ELSE -1

\* the fallback with endLine not capped at the last line
FirstLineFallbackNoMin(lines, selectedText) ==
    LET selectionLines == Split(selectedText)
        firstSelectionLine == Trim(selectionLines[1])
        hits == {i \in 0..(Len(lines) - 1) :
                    Includes(lines[i + 1], firstSelectionLine)}
    IN  IF hits = {} THEN NullSelection
        ELSE LET i == SetMin(hits)
                 at == IndexOf(lines[i + 1], firstSelectionLine)
             IN  SelectionInfo(selectedText, i,
                     i + Len(selectionLines) - 1,
                     at,
                     IF Len(selectionLines) = 1
                     THEN at + Len(firstSelectionLine)
                     ELSE Len(selectionLines[Len(selectionLines)]))

\* the line-by-line fallback of lines 1123-1142
FirstLineFallback(lines, selectedText) ==
    LET selectionLines == Split(selectedText)
        firstSelectionLine == Trim(selectionLines[1])
        hits == {i \in 0..(Len(lines) - 1) :
                    Includes(lines[i + 1], firstSelectionLine)}
    IN  IF hits = {} THEN NullSelection
        ELSE LET i == SetMin(hits)
                 at == IndexOf(lines[i + 1], firstSelectionLine)
             IN  SelectionInfo(selectedText, i,
                     Min(i + Len(selectionLines) - 1, Len(lines) - 1),
                     at,
                     IF Len(selectionLines) = 1
                     THEN at + Len(firstSelectionLine)
                     ELSE Len(selectionLines[Len(selectionLines)]))

\* lines 1145-1184: the range from matchIndex
RangeFromIndex(lines, selectedText, matchIndex) ==
    LET start == OffsetToLineCol(lines, matchIndex, 0, 0)
        endIndex == matchIndex + Len(selectedText)
        end == OffsetToLineCol(lines, endIndex, start.line,
                               start.char + Len(selectedText))
    IN  SelectionInfo(selectedText, start.line, end.line, start.char, end.char)

\* the function returning a range at the start of the buffer when nothing
\* matched
GetSelectionLineRangeNoNull(engine, source, selectedText) ==
    IF ~engine \/ selectedText = <<>> THEN NullSelection
    ELSE LET lines == Split(source)
             matchIndex == MatchIndex(source, selectedText)
             fallback == FirstLineFallback(lines, selectedText)
         IN  IF matchIndex = -1
             THEN IF fallback = NullSelection
                  THEN RangeFromIndex(lines, selectedText, 0)
                  ELSE fallback
             ELSE RangeFromIndex(lines, selectedText, matchIndex)

\* getSelectionLineRange(selectedText) with engine present or not and
\* source the buffer vditor.getValue() returns
GetSelectionLineRange(engine, source, selectedText) ==
    IF ~engine \/ selectedText = <<>> THEN NullSelection
    ELSE LET lines == Split(source)
             matchIndex == MatchIndex(source, selectedText)
         IN  IF matchIndex = -1 THEN FirstLineFallback(lines, selectedText)
             ELSE RangeFromIndex(lines, selectedText, matchIndex)

\* no mapping is being built
MapperIdle ==
    /\ rendered = <<>>
    /\ lineToElementMap = <<>>
    /\ usedElements = {}
    /\ elementIndex = 0
    /\ mapStage = "idle"
    /\ appliedDecorations = NoDecorations

\* the extension host has no panel
NoUri == "none"

NoInput == [kind |-> "none"]

KeepIdle == [stage |-> "idle"]

HostIdle ==
    /\ panelUri = <<>>
    /\ disposedPanels = {}
    /\ panels = <<>>
    /\ currentPanel = 0
    /\ opening = <<>>
    /\ docText = <<>>
    /\ docSaved = <<>>
    /\ webviewText = <<>>
    /\ panelActive = FALSE
    /\ initialized = FALSE
    /\ readyPending = FALSE
    /\ fallbackTimer = FALSE
    /\ lastEditFromWebview = FALSE
    /\ textEditTimer = FALSE
    /\ changeEvents = <<>>
    /\ pendingEdits = <<>>
    /\ hostPosted = <<>>
    /\ keep = KeepIdle
    /\ hostLog = <<>>
    /\ unpushed = FALSE
    /\ lastInput = NoInput
    /\ hostInputs = 0

\* the selection menu before any event
SelectionIdle ==
    /\ sourceMarkdown = <<>>
    /\ selection = <<>>
    /\ currentSelection = NullSelection
    /\ menuVisible = FALSE
    /\ hideTimeout = FALSE
    /\ justAddedToChat = FALSE
    /\ menuTimers = <<>>
    /\ posted = <<>>
    /\ outcome = "none"

----------------------------------------------------------------------------
(* Initial state: the script has loaded, no 'update' message has arrived *)

Init ==
    /\ vditor = FALSE
    /\ irContainer = FALSE
    /\ currentMode = DefaultMode
    /\ previousMode = NULL
    /\ toolbarVisible = FALSE
    /\ scene \in ControllerScenes
    /\ tags = NoTags(scene)
    /\ timers = <<>>
    /\ log = <<>>
    /\ exhausted = FALSE
    /\ SelectionIdle
    /\ MapperIdle
    /\ HostIdle

----------------------------------------------------------------------------
(* Actions *)

\* the 'update' message of type init that answers 'ready': initVditor
InitMsg ==
    /\ ~vditor
    /\ vditor' = TRUE
    /\ irContainer' = FALSE
    /\ currentMode' = DefaultMode
    /\ tags' = NoTags(scene)
    /\ UNCHANGED <<previousMode, toolbarVisible, timers, scene, log, exhausted>>
    /\ UNCHANGED outsideDeco

\* the engine finishes building the IR tree
TreeReady ==
    /\ vditor
    /\ ~irContainer
    /\ irContainer' = TRUE
    /\ UNCHANGED <<vditor, currentMode, previousMode, toolbarVisible, tags,
                   timers, scene, log, exhausted>>
    /\ UNCHANGED outsideDeco

\* the user switches the editing mode with the edit-mode toolbar item
ModeChange(m) ==
    /\ vditor
    /\ irContainer
    /\ m # currentMode
    /\ currentMode' = m
    /\ UNCHANGED <<vditor, irContainer, previousMode, toolbarVisible, tags,
                   timers, scene, log, exhausted>>
    /\ UNCHANGED outsideDeco

\* message handler, case 'apply-decorations'
ApplyMsg(decorations) ==
    /\ Len(log) < MaxMsgs
    /\ Len(timers) < MaxPending
    /\ log' = Append(log, [kind |-> "apply", dec |-> decorations])
    /\ exhausted' = FALSE
    /\ IF ~vditor
       THEN SetDeco([Deco EXCEPT !.timers =
               Append(@, Timer("wait", decorations, 0, EngineWaitDelay,
                               Hist(Len(log) + 1, 0, FALSE)))])
       ELSE SetDeco(ApplyDecorationsToVditor(Deco, decorations, 0,
                                             Hist(Len(log) + 1, 0, FALSE)))
    /\ UNCHANGED <<vditor, irContainer, currentMode, scene>>
    /\ UNCHANGED outsideDeco

\* message handler, case 'clear-decorations'
ClearMsg ==
    /\ Len(log) < MaxMsgs
    /\ log' = Append(log, [kind |-> "clear", dec |-> NoDecorations])
    /\ exhausted' = FALSE
    /\ SetDeco(ClearDecorations(Deco))
    /\ UNCHANGED <<vditor, irContainer, currentMode, scene>>
    /\ UNCHANGED outsideDeco

\* timer t is the render callback of the latest message, finds no tree and
\* has no retry left
GivesUp(t) ==
    /\ t.kind = "render"
    /\ t.hist.origin = Len(log)
    /\ ~irContainer \/ ~vditor
    /\ t.retry >= RetryCeiling

\* a pending timer fires
FireTimer(i) ==
    /\ Due(i)
    /\ SetDeco(RunTimer([Deco EXCEPT !.timers = RemoveAt(@, i)], timers[i]))
    /\ exhausted' = (exhausted \/ GivesUp(timers[i]))
    /\ UNCHANGED <<vditor, irContainer, currentMode, scene, log>>
    /\ UNCHANGED outsideDeco

Next ==
    \/ InitMsg
    \/ TreeReady
    \/ \E m \in Modes : ModeChange(m)
    \/ \E d \in Decorations : ApplyMsg(d)
    \/ ClearMsg
    \/ \E i \in 1..Len(timers) : FireTimer(i)

Spec == Init /\ [][Next]_vars

----------------------------------------------------------------------------
(* Vocabulary of the properties *)

Last(seq) == seq[Len(seq)]

\* this step handles a decoration message
MsgStep == Len(log') = Len(log) + 1
ApplyStep == MsgStep /\ Last(log').kind = "apply"
ClearStep == MsgStep /\ Last(log').kind = "clear"

AnyTagged == \E n \in DOMAIN tags : tags[n] # {}

\* state Idle of the mode guard
Idle == previousMode = NULL /\ ~AnyTagged /\ ~toolbarVisible

\* the classes change set d puts on an untagged tree
TagsOf(d) == Decorate(SceneLines(scene), SceneNodes(scene), d, NoTags(scene))

\* the view carries every class d puts on it
TaggedWith(d) == \A n \in DOMAIN tags : TagsOf(d)[n] \subseteq tags[n]

\* the view carries no class but those d puts on it
OnlyTagsOf(d) == \A n \in DOMAIN tags : tags[n] \subseteq TagsOf(d)[n]

\* every apply-decorations so far carried a non-empty change set
NoEmptyApplies ==
    \A k \in 1..Len(log) :
        log[k].kind = "apply" => log[k].dec \in NonEmptyChangeSets

----------------------------------------------------------------------------
(* C1: apply(A) found no tree and scheduled a retry; before the retry fired
   a clear() and then an apply(B) were handled: the attempt the stale retry
   starts puts no class on any node. *)
C1_StaleRetryTagsNothing ==
    [][\A i \in 1..Len(timers) :
          (/\ FireTimer(i)
           /\ NoEmptyApplies
           /\ timers[i].hist.stale)
          => \A n \in DOMAIN tags : tags'[n] \subseteq tags[n]]_vars

(* C2: while the last message handled is clear-decorations, no node carries
   a class and the toolbar is hidden. *)
C2_ClearedStaysCleared ==
    (log # <<>> /\ Last(log).kind = "clear" /\ NoEmptyApplies)
        => (~AnyTagged /\ ~toolbarVisible)

(* C3: apply(A) then apply(B) with no clear between: once no timer pends,
   every class in the view is one B puts there. *)
C3_LastWriteWins ==
    (/\ Len(log) >= 2
     /\ log[Len(log) - 1].kind = "apply"
     /\ log[Len(log) - 1].dec \in NonEmptyChangeSets
     /\ Last(log).kind = "apply"
     /\ Last(log).dec \in NonEmptyChangeSets
     /\ timers = <<>>)
        => OnlyTagsOf(Last(log).dec)

(* C4: an apply-decorations handled while a session is active (a mode is
   saved and nodes are tagged) leaves the saved mode as it is. *)
C4_SavedModeKept ==
    [][(ApplyStep /\ NoEmptyApplies' /\ previousMode # NULL /\ AnyTagged)
          => previousMode' = previousMode]_vars

(* C5: apply with three empty sets handled in state Idle leaves the state
   Idle. *)
C5_EmptyApplyIdle ==
    [][(ApplyStep /\ Last(log').dec = EmptyCS /\ Idle)
          => (previousMode' = NULL
              /\ (\A n \in DOMAIN tags : tags'[n] = {})
              /\ ~toolbarVisible')]_vars

(* C6: apply with three empty sets handled while nodes are tagged changes
   neither the classes, nor the saved mode, nor the toolbar. *)
C6_EmptyApplyNoOp ==
    [][(ApplyStep /\ Last(log').dec = EmptyCS /\ AnyTagged)
          => UNCHANGED <<tags, previousMode, toolbarVisible>>]_vars

(* C7: after clear-decorations is handled, in whatever state, no node
   carries a class, no mode is saved and the toolbar is hidden. *)
C7_ClearResets ==
    [][(ClearStep /\ NoEmptyApplies)
          => (/\ \A n \in DOMAIN tags : tags'[n] = {}
              /\ previousMode' = NULL
              /\ ~toolbarVisible')]_vars

(* C8: clearDecorations is idempotent: run on its own result it changes
   nothing more (classes, saved mode, toolbar, pending timers), and run in
   state Idle it changes nothing. *)
C8_ClearIdempotent ==
    /\ ClearDecorations(ClearDecorations(Deco)) = ClearDecorations(Deco)
    /\ Idle => ClearDecorations(Deco) = Deco

\* two clear-decorations in a row were handled after an apply that tagged
C8_Witness ==
    /\ Len(log) = 3
    /\ log[1].kind = "apply" /\ log[1].dec \in NonEmptyChangeSets
    /\ log[2].kind = "clear" /\ log[3].kind = "clear"
    /\ irContainer
    /\ timers = <<>>
    /\ Idle

(* C9: a retry chain stops at the ceiling: no pending attempt carries a
   retry count above 5, and the render callback that finds no tree with
   retry = 5 schedules nothing more and tags nothing. *)
C9_RetryCeiling ==
    /\ [](\A i \in 1..Len(timers) : timers[i].retry <= RetryCeiling)
    /\ [][\A i \in 1..Len(timers) :
             (/\ FireTimer(i)
              /\ timers[i].kind = "render"
              /\ timers[i].retry = RetryCeiling
              /\ ~irContainer)
             => (/\ timers' = RemoveAt(timers, i)
                 /\ UNCHANGED <<tags, toolbarVisible, previousMode>>)]_vars

\* the only message was an apply, its chain has ended at the ceiling, the
\* tree never came and nothing is tagged
C9_Witness ==
    /\ Len(log) = 1
    /\ log[1].dec \in NonEmptyChangeSets
    /\ exhausted
    /\ ~irContainer
    /\ timers = <<>>
    /\ ~AnyTagged

(* C10: the only message is an apply; the engine and the tree are there,
   the retry ceiling was not reached and no deferred attempt pends: then the
   lines of the change set that map to a node are tagged. *)
C10_TaggedOnceAvailable ==
    (/\ Len(log) = 1
     /\ log[1].kind = "apply"
     /\ log[1].dec \in NonEmptyChangeSets
     /\ vditor /\ irContainer
     /\ ~exhausted
     /\ timers = <<>>)
        => (TaggedWith(log[1].dec) /\ AnyTagged)

\* what the program keeps about decorations: the saved mode, the classes on
\* the nodes, the toolbar, and what each pending timer's closure holds
DecorationState ==
    <<previousMode, tags, toolbarVisible,
      [i \in 1..Len(timers) |->
          <<timers[i].kind, timers[i].dec, timers[i].retry, timers[i].delay>>]>>

(* C11: the decoration state holds a generation counter that every apply and
   every clear strictly increases: handling a clear-decorations message, or
   an apply-decorations message with a non-empty change set, with the engine
   and the tree present, changes the decoration state. *)
C11_GenerationAdvances ==
    [][(/\ MsgStep
        /\ ClearStep \/ Last(log').dec \in NonEmptyChangeSets
        /\ vditor /\ irContainer)
          => DecorationState' # DecorationState]_vars

----------------------------------------------------------------------------
(* ResolverSpec: getSelectionLineRange applied to buffers and selected
   texts.  The engine is present or not; the buffer is any text of at most
   MaxTextLen characters or one of the example buffers; Resolve hands the
   function any text of at most MaxSelLen characters or an example. *)

Alphabet == {"a", "b", " ", "\n"}

TextsUpTo(n) == UNION {[1..k -> Alphabet] : k \in 0..n}

ExampleTexts ==
    { <<"a", "\n", "b", "\n", "c">>,
      <<"h", "e", "l", "l", "o", " ", " ", " ", "w", "o", "r", "l", "d">>,
      <<"a", "b", "c">>,
      <<" ", " ", "a", "\n", "b">> }

ExampleSelections ==
    { <<"b">>,
      <<"h", "e", "l", "l", "o", " ", "w", "o", "r", "l", "d">>,
      <<"x", "y", "z">> }

Texts == TextsUpTo(MaxTextLen) \cup ExampleTexts

Selections == TextsUpTo(MaxSelLen) \cup ExampleSelections

ResolverInit ==
    /\ vditor \in BOOLEAN
    /\ irContainer = vditor
    /\ currentMode = DefaultMode
    /\ previousMode = NULL
    /\ toolbarVisible = FALSE
    /\ scene \in ControllerScenes
    /\ tags = NoTags(scene)
    /\ timers = <<>>
    /\ log = <<>>
    /\ exhausted = FALSE
    /\ sourceMarkdown \in (IF vditor THEN Texts ELSE {<<>>})
    /\ selection = <<>>
    /\ currentSelection = NullSelection
    /\ menuVisible = FALSE
    /\ hideTimeout = FALSE
    /\ justAddedToChat = FALSE
    /\ menuTimers = <<>>
    /\ posted = <<>>
    /\ outcome = "none"
    /\ MapperIdle
    /\ HostIdle

\* currentSelection = getSelectionLineRange(text), line 1232; the function
\* keeps no state between calls, so a behaviour is one call
Resolve(text) ==
    /\ selection = <<>>
    /\ selection' = text
    /\ currentSelection' = GetSelectionLineRange(vditor, sourceMarkdown, text)
    /\ UNCHANGED <<sourceMarkdown, menuVisible, hideTimeout, justAddedToChat,
                   menuTimers, posted, outcome>>
    /\ UNCHANGED <<decoVars, mapVars, hostVars>>

ResolverNext == \E text \in Selections : Resolve(text)

ResolverSpec == ResolverInit /\ [][ResolverNext]_vars

----------------------------------------------------------------------------
(* Vocabulary of the resolver's properties *)

\* the resolver has run on the selection of this state
Resolved == currentSelection = GetSelectionLineRange(vditor, sourceMarkdown, selection)

\* the offset of column col of line line
LineColToOffset(lines, line, col) == CharCount(lines, line) + col

\* (line, col) is a position of the buffer
ValidLineCol(lines, line, col) ==
    /\ line \in 0..(Len(lines) - 1)
    /\ col \in 0..Len(lines[line + 1])

(* C12: splitting a text on "\n" and joining the lines with "\n" gives the
   text back, for the buffer and for the selected text, the empty text and
   texts with trailing or consecutive newlines included. *)
C12_SplitJoinRoundTrip ==
    /\ Join(Split(sourceMarkdown)) = sourceMarkdown
    /\ Join(Split(selection)) = selection

\* the resolver split a buffer with consecutive newlines at its end
C12_Witness ==
    /\ sourceMarkdown = <<"a", "\n", "\n">>
    /\ Len(Split(sourceMarkdown)) = 3
    /\ selection = <<"a">>
    /\ currentSelection # NullSelection

(* C13: for every offset o of the buffer, 0 <= o <= length, the scan gives
   a position (line, column) of the buffer, and the offset of that position
   is o. *)
C13_OffsetRoundTrip ==
    \A o \in 0..Len(sourceMarkdown) :
        LET lines == Split(sourceMarkdown)
            lc == OffsetToLineCol(lines, o, 0, 0)
        IN  /\ ValidLineCol(lines, lc.line, lc.char)
            /\ LineColToOffset(lines, lc.line, lc.char) = o

\* the resolver turned an offset inside a later line into line and column
C13_Witness ==
    /\ sourceMarkdown = <<"a", "\n", "a", "b">>
    /\ selection = <<"b">>
    /\ currentSelection # NullSelection
    /\ currentSelection.startLine = 1
    /\ currentSelection.startChar = 1

\* the three tiers, each on its own: what it looks for and whether it is there
NormalizedSelection == Trim(CollapseWs(selection))

FirstSelectionLine ==
    Trim(SubSeq(selection, 1,
                SetMin({k \in 1..(Len(selection) + 1) :
                           k = Len(selection) + 1 \/ selection[k] = "\n"}) - 1))

SelectionLineCount == Cardinality({k \in 1..Len(selection) : selection[k] = "\n"}) + 1

Tier1Finds == Includes(sourceMarkdown, selection)

Tier2Finds == Includes(CollapseWs(sourceMarkdown), NormalizedSelection)

Tier3Finds ==
    \E i \in 1..Len(Split(sourceMarkdown)) :
        Includes(Split(sourceMarkdown)[i], FirstSelectionLine)

\* offset of the first verbatim occurrence of the selection
FirstOccurrence ==
    CHOOSE i \in 0..Len(sourceMarkdown) :
        /\ SubSeq(sourceMarkdown, i + 1, i + Len(selection)) = selection
        /\ \A j \in 0..(i - 1) :
              SubSeq(sourceMarkdown, j + 1, j + Len(selection)) # selection

\* the resolver ran on a non-empty selection with the engine present
Ran == vditor /\ selection # <<>>

StartOffset ==
    LineColToOffset(Split(sourceMarkdown), currentSelection.startLine,
                    currentSelection.startChar)

EndOffset ==
    LineColToOffset(Split(sourceMarkdown), currentSelection.endLine,
                    currentSelection.endChar)

(* C14: when the non-empty selection occurs verbatim in the buffer, the
   resolver returns the range of the first occurrence: start and end are
   positions of the buffer, at the first occurrence's offset and at that
   offset plus the selection's length; "a\nb\nc" with "b" gives
   startLine 1, startChar 0, endLine 1, endChar 1. *)
C14_ExactFirstOccurrence ==
    /\ (Ran /\ Tier1Finds) =>
          /\ currentSelection # NullSelection
          /\ currentSelection.text = selection
          /\ ValidLineCol(Split(sourceMarkdown), currentSelection.startLine,
                          currentSelection.startChar)
          /\ StartOffset = FirstOccurrence
          /\ ValidLineCol(Split(sourceMarkdown), currentSelection.endLine,
                          currentSelection.endChar)
          /\ EndOffset = FirstOccurrence + Len(selection)
    /\ (Ran /\ sourceMarkdown = <<"a", "\n", "b", "\n", "c">> /\ selection = <<"b">>)
          => currentSelection = SelectionInfo(<<"b">>, 1, 1, 0, 1)

\* the resolver ran on the example of the claim
C14_Witness ==
    /\ Ran
    /\ sourceMarkdown = <<"a", "\n", "b", "\n", "c">>
    /\ selection = <<"b">>
    /\ currentSelection # NullSelection

\* the selection occurs twice and spans a newline
C14_WitnessTwice ==
    /\ Ran
    /\ sourceMarkdown = <<"\n", "a", "\n", "a">>
    /\ selection = <<"\n", "a">>
    /\ currentSelection = SelectionInfo(selection, 0, 1, 0, 1)

(* C15: when the selection has no verbatim occurrence but its normalized
   form (whitespace runs collapsed, ends trimmed) occurs in the collapsed
   buffer, the resolver returns a match whose start is a position of the
   buffer, reached by as many normalized steps as the normalized match
   offset, and the buffer from that start on, collapsed, begins with the
   normalized selection; "hello   world" with "hello world" matches at
   line 0. *)
C15_NormalizedStart ==
    /\ (Ran /\ ~Tier1Finds /\ Tier2Finds) =>
          /\ currentSelection # NullSelection
          /\ ValidLineCol(Split(sourceMarkdown), currentSelection.startLine,
                          currentSelection.startChar)
          /\ Len(CollapseWs(SubSeq(sourceMarkdown, 1, StartOffset)))
                = SetMin(Occurrences(CollapseWs(sourceMarkdown), NormalizedSelection))
          /\ Prefix(CollapseWs(SubSeq(sourceMarkdown, StartOffset + 1,
                                      Len(sourceMarkdown))),
                    Len(NormalizedSelection)) = NormalizedSelection
    /\ (Ran /\ sourceMarkdown = <<"h", "e", "l", "l", "o", " ", " ", " ",
                                  "w", "o", "r", "l", "d">>
            /\ selection = <<"h", "e", "l", "l", "o", " ", "w", "o", "r", "l", "d">>)
          => (currentSelection # NullSelection /\ currentSelection.startLine = 0)

\* the normalized match lies behind a whitespace run of the buffer
C15_Witness ==
    /\ Ran
    /\ sourceMarkdown = <<" ", " ", "a", "\n", "b">>
    /\ selection = <<"a", " ", "b">>
    /\ ~Tier1Finds /\ Tier2Finds
    /\ currentSelection # NullSelection
    /\ currentSelection.startLine = 0
    /\ currentSelection.startChar = 2

(* C16: the resolver returns null when the engine is absent, when the
   selected text is empty, and when no tier finds the selection ("abc" with
   "xyz"); whatever the buffer and the text, it returns null or a range of
   five fields. *)
C16_NoMatchIsNull ==
    /\ (~vditor \/ selection = <<>>) => currentSelection = NullSelection
    /\ (~Tier1Finds /\ ~Tier2Finds /\ ~Tier3Finds) => currentSelection = NullSelection
    /\ \/ currentSelection = NullSelection
       \/ /\ DOMAIN currentSelection
                = {"text", "startLine", "endLine", "startChar", "endChar"}
          /\ currentSelection.text = selection
          /\ currentSelection.startLine \in Nat
          /\ currentSelection.endLine \in Nat
          /\ currentSelection.startChar \in Nat
          /\ currentSelection.endChar \in Nat

\* the resolver ran on the example of the claim and found nothing
C16_Witness ==
    /\ Ran
    /\ sourceMarkdown = <<"a", "b", "c">>
    /\ selection = <<"x", "y", "z">>
    /\ currentSelection = NullSelection

(* C17: the result is that of the first tier that finds a match: the exact
   one, else the normalized one, else the first-line fallback, else null. *)
C17_TiersInOrder ==
    Ran =>
        currentSelection =
            IF Tier1Finds
            THEN RangeFromIndex(Split(sourceMarkdown), selection, FirstOccurrence)
            ELSE IF Tier2Finds
            THEN RangeFromIndex(Split(sourceMarkdown), selection,
                     MapBack(sourceMarkdown, 0, 0,
                             IndexOf(CollapseWs(sourceMarkdown), NormalizedSelection)))
            ELSE IF Tier3Finds
            THEN FirstLineFallback(Split(sourceMarkdown), selection)
            ELSE NullSelection

\* the exact and the normalized tier both find the selection, at different
\* places
C17_Witness ==
    /\ Ran
    /\ sourceMarkdown = <<"a", " ", "a">>
    /\ selection = <<" ", "a">>
    /\ Tier1Finds /\ Tier2Finds
    /\ currentSelection.startChar = 1

(* C18: in the first-line fallback startLine is the first buffer line that
   contains the trimmed first line of the selection, and endLine is
   min(startLine + selectionLineCount - 1, lastLineIndex). *)
C18_FallbackLines ==
    (Ran /\ ~Tier1Finds /\ ~Tier2Finds /\ Tier3Finds) =>
        LET lines == Split(sourceMarkdown)
            matchLine == CHOOSE i \in 0..(Len(lines) - 1) :
                            /\ Includes(lines[i + 1], FirstSelectionLine)
                            /\ \A j \in 0..(i - 1) :
                                  ~Includes(lines[j + 1], FirstSelectionLine)
        IN  /\ currentSelection # NullSelection
            /\ currentSelection.startLine = matchLine
            /\ currentSelection.endLine
                  = Min(matchLine + SelectionLineCount - 1, Len(lines) - 1)
            /\ currentSelection.endLine <= Len(lines) - 1

\* the fallback matched and the selection has more lines than the buffer
\* has left
C18_Witness ==
    /\ Ran /\ ~Tier1Finds /\ ~Tier2Finds /\ Tier3Finds
    /\ sourceMarkdown = <<"b", "\n", "a">>
    /\ selection = <<"a", "\n", "b">>
    /\ currentSelection # NullSelection
    /\ currentSelection.startLine = 1
    /\ currentSelection.endLine = 1

(* C30: every range the resolver returns for a selected text without
   leading or trailing whitespace (the caller trims it, line 1229) lies
   inside the buffer: start and
   end are positions of the buffer (a line index of the buffer and a column
   from 0 to that line's length) and the start line is not after the end
   line. *)
C30_RangeInsideDocument ==
    (currentSelection # NullSelection /\ selection = Trim(selection)) =>
        LET lines == Split(sourceMarkdown)
        IN  /\ ValidLineCol(lines, currentSelection.startLine,
                            currentSelection.startChar)
            /\ ValidLineCol(lines, currentSelection.endLine,
                            currentSelection.endChar)
            /\ currentSelection.startLine <= currentSelection.endLine

\* start and end of the returned range are positions of the buffer, in order
RangeValid ==
    LET lines == Split(sourceMarkdown)
    IN  /\ ValidLineCol(lines, currentSelection.startLine,
                        currentSelection.startChar)
        /\ ValidLineCol(lines, currentSelection.endLine,
                        currentSelection.endChar)
        /\ StartOffset <= EndOffset

(* C31: when the selected text (trimmed by the caller) is found only after
   whitespace normalization and the returned range lies inside the buffer,
   the text of the buffer between the range's start and end offsets, with
   its whitespace runs collapsed, is the whitespace-collapsed selection. *)
C31_NormalizedRangeEnd ==
    (/\ Ran /\ selection = Trim(selection)
     /\ ~Tier1Finds /\ Tier2Finds
     /\ currentSelection # NullSelection
     /\ RangeValid)
    => CollapseWs(SubSeq(sourceMarkdown, StartOffset + 1, EndOffset))
         = CollapseWs(selection)

----------------------------------------------------------------------------
(* MapperSpec: the building of lineToElementMap inside the render callback
   (lines 1530-1633), one step per strategy, on buffers of at most MaxLines
   lines and IR trees of at most MaxNodes block elements. *)

LineTexts == { <<>>, <<"a">>, <<"b">>, <<"a", "b">> }

NodeTexts == { <<"a">>, <<"b">>, <<"a", "b">>, <<" ">> }

SeqsUpTo(S, lo, n) == UNION {[1..k -> S] : k \in lo..n}

\* a line one character longer than the prefix Strategy 1 cuts, the prefix
\* itself, and a text that shares only the shorter prefix of Strategy 2
LongLine == [i \in 1..(PrefixLen1 + 1) |-> IF i <= PrefixLen1 THEN "a" ELSE "b"]

LongPrefix == Prefix(LongLine, PrefixLen1)

ShortPrefixText == [i \in 1..(PrefixLen2 + 1) |-> IF i <= PrefixLen2 THEN "a" ELSE "c"]

ExampleBuffers ==
    { LongLine, Join(<< <<"a", "b">>, LongLine >>),
      Join(SceneLines(1)), Join(SceneLines(2)) }

ExampleTrees ==
    { << Node(LongPrefix, 0, FALSE, TRUE, TRUE) >>,
      << Node(ShortPrefixText, 0, FALSE, TRUE, TRUE),
         Node(<<"b">>, 0, FALSE, TRUE, TRUE) >>,
      SceneNodes(1), SceneNodes(2) }

MapperBuffers ==
    {Join(ls) : ls \in SeqsUpTo(LineTexts, 1, MaxLines)} \cup ExampleBuffers

MapperTrees ==
    {[i \in 1..Len(ts) |-> Node(ts[i], 0, FALSE, TRUE, TRUE)] :
        ts \in SeqsUpTo(NodeTexts, 0, MaxNodes)} \cup ExampleTrees

MapperInit ==
    /\ vditor = TRUE
    /\ irContainer = TRUE
    /\ currentMode = DefaultMode
    /\ previousMode = NULL
    /\ toolbarVisible = FALSE
    /\ scene \in ControllerScenes
    /\ tags = NoTags(scene)
    /\ timers = <<>>
    /\ log = <<>>
    /\ exhausted = FALSE
    /\ sourceMarkdown \in MapperBuffers
    /\ selection = <<>>
    /\ currentSelection = NullSelection
    /\ menuVisible = FALSE
    /\ hideTimeout = FALSE
    /\ justAddedToChat = FALSE
    /\ menuTimers = <<>>
    /\ posted = <<>>
    /\ outcome = "none"
    /\ rendered \in MapperTrees
    /\ lineToElementMap = EmptyMap(Split(sourceMarkdown))
    /\ usedElements = {}
    /\ elementIndex = 0
    /\ mapStage = "start"
    /\ appliedDecorations = NoDecorations
    /\ HostIdle

\* lines 1547-1569
RunStrategy1 ==
    /\ mapStage = "start"
    /\ LET r == Strategy1(Split(sourceMarkdown), rendered, 0,
                          [map |-> lineToElementMap, used |-> usedElements])
       IN  /\ lineToElementMap' = r.map
           /\ usedElements' = r.used
    /\ mapStage' = "strategy1"
    /\ UNCHANGED <<rendered, elementIndex, appliedDecorations>>
    /\ UNCHANGED <<decoVars, selVars, hostVars>>

\* lines 1580-1601
RunStrategy2 ==
    /\ mapStage = "strategy1"
    /\ LET r == Strategy2(Split(sourceMarkdown), rendered, 0,
                          [map |-> lineToElementMap, used |-> usedElements,
                           elementIndex |-> 0])
       IN  /\ lineToElementMap' = r.map
           /\ usedElements' = r.used
           /\ elementIndex' = r.elementIndex
    /\ mapStage' = "strategy2"
    /\ UNCHANGED <<rendered, appliedDecorations>>
    /\ UNCHANGED <<decoVars, selVars, hostVars>>

\* lines 1603-1633
RunStrategy3 ==
    /\ mapStage = "strategy2"
    /\ lineToElementMap' = Strategy3(Split(sourceMarkdown), 0, lineToElementMap)
    /\ mapStage' = "strategy3"
    /\ UNCHANGED <<rendered, usedElements, elementIndex, appliedDecorations>>
    /\ UNCHANGED <<decoVars, selVars, hostVars>>

MapperNext ==
    \/ RunStrategy1
    \/ RunStrategy2
    \/ RunStrategy3

MapperSpec == MapperInit /\ [][MapperNext]_vars

\* the lines that have an element
MappedLines == {i \in DOMAIN lineToElementMap : lineToElementMap[i] # 0}

(* C20: in Strategy 1 and Strategy 2 an element is reserved at most once:
   after either, no element is the element of two lines and the reserved
   elements are the elements of the mapped lines; and Strategy 2 leaves the
   lines Strategy 1 mapped as they are. *)
C20_ReservedOnce ==
    /\ [](mapStage \in {"strategy1", "strategy2"} =>
            /\ \A i, j \in MappedLines :
                  lineToElementMap[i] = lineToElementMap[j] => i = j
            /\ usedElements = {lineToElementMap[i] : i \in MappedLines})
    /\ [][mapStage = "strategy1" =>
            \A i \in MappedLines : lineToElementMap'[i] = lineToElementMap[i]]_vars

\* Strategy 1 mapped a line, Strategy 2 another, and a third line that
\* Strategy 1's test matches to a reserved element stays without one
C20_Witness ==
    /\ mapStage = "strategy2"
    /\ sourceMarkdown = <<"a", "\n", "a", "b", "\n", "a">>
    /\ [i \in 1..Len(rendered) |-> rendered[i].text] = << <<"a">>, <<"b">> >>
    /\ lineToElementMap[0] = 1
    /\ lineToElementMap[1] = 2
    /\ lineToElementMap[2] = 0

\* vocabulary of the mapper's properties
MapperLines == Split(sourceMarkdown)

NonBlank(i) == \E k \in 1..Len(MapperLines[i + 1]) : ~IsSpace(MapperLines[i + 1][k])

NodeTextsOf(tree) == [i \in 1..Len(tree) |-> tree[i].text]

Contains(t, l) == \E k \in 1..(Len(t) - Len(l) + 1) : \A m \in 1..Len(l) : t[k + m - 1] = l[m]

\* node n passes Tier A's test for line i
TierAQualifies(n, i) ==
    LET t == NormalizeWs(rendered[n].text)
        l == NormalizeWs(MapperLines[i + 1])
    IN  \/ t = l
        \/ Contains(t, l)
        \/ /\ Len(l) > PrefixLen1
           /\ Contains(t, SubSeq(l, 1, PrefixLen1))

\* the first node of the block sequence that is not the node of an earlier
\* line and passes Tier A's test for line i (0: none, or the line is blank)
TierAChoice(i) ==
    LET reserved == {lineToElementMap[j] : j \in 0..(i - 1)}
        cand == {n \in 1..Len(rendered) :
                    /\ rendered[n].block
                    /\ n \notin reserved
                    /\ TierAQualifies(n, i)}
    IN  IF NonBlank(i) /\ cand # {} THEN SetMin(cand) ELSE 0

(* C21: after Strategy 1 every line has the element the rule of Tier A
   gives it: a non-blank line has the first block element, in document
   order, that no earlier line has and whose normalized text equals the
   normalized line, contains it, or, for a line longer than 20 characters,
   contains its first 20 characters; a blank line, and a line with no such
   element, has none. *)
C21_TierAFirstMatch ==
    mapStage = "strategy1" =>
        \A i \in DOMAIN lineToElementMap : lineToElementMap[i] = TierAChoice(i)

\* a line of 21 characters is mapped to an element that holds only its
\* first 20 characters
C21_Witness ==
    /\ mapStage = "strategy1"
    /\ sourceMarkdown = LongLine
    /\ NodeTextsOf(rendered) = << LongPrefix >>
    /\ ~Contains(rendered[1].text, LongLine)
    /\ lineToElementMap[0] = 1

\* the lines Strategy 2 gives an element in the step being taken
TierBLines == {i \in DOMAIN lineToElementMap :
                 lineToElementMap[i] = 0 /\ lineToElementMap'[i] # 0}

(* C22: the elements Strategy 2 assigns are in strictly increasing
   document order as the line index increases, each lies before the final
   cursor, and the cursor ends just after the last element assigned. *)
C22_TierBMonotonic ==
    [][mapStage = "strategy1" =>
         /\ \A i, j \in TierBLines :
               i < j => lineToElementMap'[i] < lineToElementMap'[j]
         /\ \A i \in TierBLines : lineToElementMap'[i] <= elementIndex'
         /\ TierBLines # {} => \E i \in TierBLines : lineToElementMap'[i] = elementIndex'
         /\ TierBLines = {} => elementIndex' = 0]_vars

\* Strategy 2 gave line 0 the second element; line 1 passes Strategy 2's
\* test on the first element, which lies before the cursor, and stays
\* without an element
C22_Witness ==
    /\ mapStage = "strategy2"
    /\ sourceMarkdown = Join(<< <<"a", "b">>, LongLine >>)
    /\ NodeTextsOf(rendered) = << ShortPrefixText, <<"b">> >>
    /\ Match2(rendered[1].text, LongLine)
    /\ lineToElementMap[0] = 2
    /\ lineToElementMap[1] = 0
    /\ elementIndex = 2

\* the mapped lines before and after line i
MappedBefore(i) == {j \in MappedLines : j < i}

MappedAfter(i) == {j \in MappedLines : j > i}

SetMax(S) == CHOOSE x \in S : \A y \in S : y <= x

(* C23: Strategy 3 gives every line that Strategies 1 and 2 left without
   an element, blank or not, the element of the nearest mapped line before
   it and, only when no line before it is mapped, of the nearest mapped
   line after it; it leaves the mapped lines as they are, and a line stays
   without an element only when no line is mapped. *)
C23_TierCNearest ==
    [][mapStage = "strategy2" =>
         \A i \in DOMAIN lineToElementMap :
            lineToElementMap'[i] =
                IF lineToElementMap[i] # 0 THEN lineToElementMap[i]
                ELSE IF MappedBefore(i) # {}
                     THEN lineToElementMap[SetMax(MappedBefore(i))]
                ELSE IF MappedAfter(i) # {}
                     THEN lineToElementMap[SetMin(MappedAfter(i))]
                ELSE 0]_vars

\* a blank line between two mapped lines has the element of the line
\* before it
C23_Witness ==
    /\ mapStage = "strategy3"
    /\ sourceMarkdown = <<"a", "\n", "\n", "b">>
    /\ NodeTextsOf(rendered) = << <<"a">>, <<"b">> >>
    /\ lineToElementMap = [i \in 0..2 |-> IF i = 2 THEN 2 ELSE 1]

----------------------------------------------------------------------------
(* TagSpec: one whole render callback (lines 1530-1673) run after the
   synchronous part of applyDecorationsToVditor, and a clearDecorations()
   after it: the three strategies, then the tagging of the lines of the
   change set and the showing of the toolbar, on buffers of at most
   MaxTagLines lines, trees of at most MaxTagNodes block elements, the
   example buffers and trees, and change sets of at most MaxTouched entries
   with line indexes from -1 to MaxTagIndex. *)

MaxTagLines == 2
MaxTagNodes == 2
MaxTagIndex == 3
MaxTouched == 2

TagBuffers ==
    {Join(ls) : ls \in SeqsUpTo(LineTexts, 1, MaxTagLines)} \cup ExampleBuffers

TagTrees ==
    {[i \in 1..Len(ts) |-> Node(ts[i], 0, FALSE, TRUE, TRUE)] :
        ts \in SeqsUpTo(NodeTexts, 0, MaxTagNodes)} \cup ExampleTrees

\* the line indexes a change set may list: a negative one, and indexes up
\* to MaxTagIndex, past the last line of most buffers
TagIndexes == (-1)..MaxTagIndex

TagChangeSets ==
    {cs \in [added : SUBSET TagIndexes, deleted : SUBSET TagIndexes,
             modified : SUBSET TagIndexes] :
        Cardinality(cs.added) + Cardinality(cs.deleted)
            + Cardinality(cs.modified) <= MaxTouched}

TagInit ==
    /\ vditor = TRUE
    /\ irContainer = TRUE
    /\ currentMode = DefaultMode
    /\ previousMode = currentMode
    /\ toolbarVisible = FALSE
    /\ scene \in ControllerScenes
    /\ timers = <<>>
    /\ log = <<>>
    /\ exhausted = FALSE
    /\ sourceMarkdown \in TagBuffers
    /\ selection = <<>>
    /\ currentSelection = NullSelection
    /\ menuVisible = FALSE
    /\ hideTimeout = FALSE
    /\ justAddedToChat = FALSE
    /\ menuTimers = <<>>
    /\ posted = <<>>
    /\ outcome = "none"
    /\ rendered \in TagTrees
    /\ tags = [n \in 1..Len(rendered) |-> {}]
    /\ lineToElementMap = EmptyMap(Split(sourceMarkdown))
    /\ usedElements = {}
    /\ elementIndex = 0
    /\ mapStage = "start"
    /\ appliedDecorations \in TagChangeSets
    /\ HostIdle

\* the callback's tagging with the text of every tagged element emptied
RunDecorateEmptyingText ==
    /\ mapStage = "strategy3"
    /\ tags' = DecorateWith(Split(sourceMarkdown), rendered, lineToElementMap,
                            appliedDecorations, tags)
    /\ toolbarVisible' = ToolbarAfterCallback(appliedDecorations, toolbarVisible)
    /\ mapStage' = "decorated"
    /\ rendered' = [n \in DOMAIN rendered |->
                       IF tags'[n] # {} THEN [rendered[n] EXCEPT !.text = <<>>]
                       ELSE rendered[n]]
    /\ UNCHANGED <<lineToElementMap, usedElements, elementIndex,
                   appliedDecorations>>
    /\ UNCHANGED <<vditor, irContainer, currentMode, previousMode, timers,
                   scene, log, exhausted>>
    /\ UNCHANGED <<selVars, hostVars>>

\* lines 1636-1673: the lines of the change set are tagged, the toolbar shown
RunDecorate ==
    /\ mapStage = "strategy3"
    /\ tags' = DecorateWith(Split(sourceMarkdown), rendered, lineToElementMap,
                            appliedDecorations, tags)
    /\ toolbarVisible' = ToolbarAfterCallback(appliedDecorations, toolbarVisible)
    /\ mapStage' = "decorated"
    /\ UNCHANGED <<rendered, lineToElementMap, usedElements, elementIndex,
                   appliedDecorations>>
    /\ UNCHANGED <<vditor, irContainer, currentMode, previousMode, timers,
                   scene, log, exhausted>>
    /\ UNCHANGED <<selVars, hostVars>>

\* lines 1681-1701: clearDecorations() after the callback
RunClear ==
    /\ mapStage = "decorated"
    /\ SetDeco(ClearDecorations(Deco))
    /\ mapStage' = "cleared"
    /\ UNCHANGED <<rendered, lineToElementMap, usedElements, elementIndex,
                   appliedDecorations>>
    /\ UNCHANGED <<vditor, irContainer, currentMode, scene, log, exhausted>>
    /\ UNCHANGED <<selVars, hostVars>>

TagNext ==
    \/ RunStrategy1
    \/ RunStrategy2
    \/ RunStrategy3
    \/ RunDecorate
    \/ RunClear

TagSpec == TagInit /\ [][TagNext]_vars

\* vocabulary of the tagging's properties
\* the in-range line indexes the change set lists under a class
CategoryLines(c) ==
    (CASE c = "cline-added-line" -> appliedDecorations.added
       [] c = "cline-deleted-line" -> appliedDecorations.deleted
       [] c = "cline-modified-line" -> appliedDecorations.modified)
    \cap DOMAIN lineToElementMap

\* the lines the mapping gives node n, and those it gives a node whose
\* immediate parent is n, a .vditor-ir__node wrapper
LinesMappedTo(n) == {l \in DOMAIN lineToElementMap : lineToElementMap[l] = n}

LinesWrappedBy(n) ==
    {l \in DOMAIN lineToElementMap :
        /\ lineToElementMap[l] # 0
        /\ rendered[lineToElementMap[l]].parent = n
        /\ rendered[n].irNode}

\* the lines without a mapped node for which the text search of the tagging
\* finds node n: n is the first element of the search whose text holds
\* the trimmed line or, for a line longer than 15 characters, its first 15
TextSearchHolds(n, l) ==
    LET lineText == Trim(MapperLines[l + 1])
    IN  /\ rendered[n].any
        /\ lineText # <<>>
        /\ \/ Contains(rendered[n].text, lineText)
           \/ /\ Len(lineText) > PrefixLen2
              /\ Contains(rendered[n].text, SubSeq(lineText, 1, PrefixLen2))

LinesFoundByText(n) ==
    {l \in DOMAIN lineToElementMap :
        /\ lineToElementMap[l] = 0
        /\ TextSearchHolds(n, l)
        /\ \A k \in 1..(n - 1) : ~TextSearchHolds(k, l)}

\* a line listed under two classes or more that has a node
MultiCategoryLines ==
    {l \in DOMAIN lineToElementMap :
        /\ lineToElementMap[l] # 0
        /\ Cardinality({c \in Classes : l \in CategoryLines(c)}) >= 2}

\* the original statement of C25: after the callback a node's classes are
\* exactly those whose set lists a line mapped to the node
C25_ExactlyMappedCategories ==
    mapStage = "decorated" =>
        \A n \in DOMAIN tags :
            tags[n] = {c \in Classes :
                          CategoryLines(c) \cap LinesMappedTo(n) # {}}

(* C25: the callback adds to a node exactly the classes whose set lists an
   in-range line that is mapped to the node, or mapped to a node whose
   immediate parent the node is as a .vditor-ir__node wrapper, or that has
   no mapped node and is found in the node by the text search; so a line
   listed under several classes that has a node puts every one of those
   classes on its node. *)
C25_AllApplicableCategories ==
    [][mapStage = "strategy3" =>
         /\ \A n \in DOMAIN tags :
               tags'[n] = tags[n] \cup
                   {c \in Classes :
                       CategoryLines(c) \cap
                           (LinesMappedTo(n) \cup LinesWrappedBy(n)
                               \cup LinesFoundByText(n)) # {}}
         /\ \A l \in MultiCategoryLines : \A c \in Classes :
               l \in CategoryLines(c) => c \in tags'[lineToElementMap[l]]]_vars

\* line 3 is listed as added and as deleted: its node and the node's
\* wrapper carry both classes, the paragraph none
C25_Witness ==
    /\ mapStage = "decorated"
    /\ rendered = SceneNodes(1)
    /\ MapperLines = SceneLines(1)
    /\ appliedDecorations = ChangeSet({3}, {3}, {})
    /\ lineToElementMap[3] = 3
    /\ tags = [n \in 1..3 |-> IF n = 1 THEN {}
                               ELSE {"cline-added-line", "cline-deleted-line"}]

(* C26: a callback that puts a class on a node leaves the toolbar visible. *)
C26_TaggingShowsToolbar ==
    [][(mapStage = "strategy3" /\ \E n \in DOMAIN tags : tags'[n] # tags[n])
          => toolbarVisible']_vars

\* the callback tagged a node and the toolbar, hidden before, is visible
C26_Witness ==
    /\ mapStage = "decorated"
    /\ appliedDecorations = ChangeSet({}, {}, {0})
    /\ \E n \in DOMAIN tags : tags[n] = {"cline-modified-line"}
    /\ toolbarVisible

(* C27: a callback none of whose in-range lines has a node in the mapping
   leaves the classes of every node as they were. *)
C27_UnmappedLineSkipped ==
    [][(mapStage = "strategy3"
          /\ \A l \in Touched(appliedDecorations) \cap DOMAIN lineToElementMap :
                lineToElementMap[l] = 0)
          => tags' = tags]_vars

(* C28: no step of the callback and no clearDecorations() changes the
   sequence of elements, an element's text or its place in the tree. *)
C28_ViewNotRestructured ==
    [][rendered' = rendered]_vars

\* a callback tagged the code block of scene 1 and its wrapper, a
\* clearDecorations() removed the classes, and the tree is as it was
C28_Witness ==
    /\ mapStage = "cleared"
    /\ appliedDecorations = ChangeSet({3}, {}, {})
    /\ rendered = SceneNodes(1)
    /\ \A n \in DOMAIN tags : tags[n] = {}
    /\ ~toolbarVisible

(* C29: the toolbar is visible only while some node carries a class. *)
C29_VisibleOnlyWhileTagged ==
    toolbarVisible => \E n \in DOMAIN tags : tags[n] # {}

\* the indexes of the change set that are not lines of the buffer
OutOfRange == Touched(appliedDecorations) \ DOMAIN lineToElementMap

(* C32: a line index of the change set that is negative or not less than
   the number of lines puts no class on any node, and the in-range lines
   of the same change set are tagged all the same: a callback whose indexes
   are all out of range leaves every node's classes as they were, and a
   callback with an out-of-range index puts the class of every in-range
   line that has a node on that node. *)
C32_OutOfRangeSkipped ==
    [][mapStage = "strategy3" =>
         /\ Touched(appliedDecorations) \subseteq OutOfRange => tags' = tags
         /\ OutOfRange # {} =>
               \A c \in Classes : \A l \in CategoryLines(c) :
                   lineToElementMap[l] # 0 => c \in tags'[lineToElementMap[l]]
         /\ \A n \in DOMAIN tags :
               tags'[n] \ tags[n] \subseteq
                   {c \in Classes : CategoryLines(c) # {}}]_vars

\* index -1 is listed as modified and line 0 as added: the node of line 0
\* carries cline-added-line and nothing else
C32_Witness ==
    /\ mapStage = "decorated"
    /\ appliedDecorations = ChangeSet({0}, {}, {-1})
    /\ sourceMarkdown = <<"a">>
    /\ NodeTextsOf(rendered) = << <<"a">> >>
    /\ tags = << {"cline-added-line"} >>

\* index MaxTagIndex, past the last line, is the only one listed: no node
\* carries a class
C32_WitnessPastEnd ==
    /\ mapStage = "decorated"
    /\ appliedDecorations = ChangeSet({MaxTagIndex}, {}, {})
    /\ sourceMarkdown = <<"a">>
    /\ NodeTextsOf(rendered) = << <<"a">> >>
    /\ tags = << {} >>

----------------------------------------------------------------------------
(* UpdateSpec: the message handler's case 'update' (lines 931-962) among
   the decoration messages and their timers.  The buffer is the text of the
   scene shown; an 'update' of type init is InitMsg, one of another type
   carries the text of one of the scenes.  vditor.setValue renders the new
   text, so the tree after it is the new scene's tree, with no class on
   any node.  The page-break rendering scheduled at line 960 touches no
   decoration state and is left out. *)

SceneText(sc) == Join(SceneLines(sc))

UpdateContents == {SceneText(sc) : sc \in Scenes}

SceneOf(content) == CHOOSE sc \in Scenes : SceneText(sc) = content

UpdateInit ==
    /\ vditor = FALSE
    /\ irContainer = FALSE
    /\ currentMode = DefaultMode
    /\ previousMode = NULL
    /\ toolbarVisible = FALSE
    /\ scene \in Scenes
    /\ tags = NoTags(scene)
    /\ timers = <<>>
    /\ log = <<>>
    /\ exhausted = FALSE
    /\ sourceMarkdown = SceneText(scene)
    /\ selection = <<>>
    /\ currentSelection = NullSelection
    /\ menuVisible = FALSE
    /\ hideTimeout = FALSE
    /\ justAddedToChat = FALSE
    /\ menuTimers = <<>>
    /\ posted = <<>>
    /\ outcome = "none"
    /\ MapperIdle
    /\ HostIdle

\* message handler, case 'update' with msg.type other than init; without
\* the engine vditor.getValue() throws and the handler ends there
UpdateMsg(content) ==
    /\ Len(log) < MaxMsgs
    /\ log' = Append(log, [kind |-> "update", dec |-> NoDecorations,
                           content |-> content])
    /\ exhausted' = FALSE
    /\ IF ~vditor \/ content = sourceMarkdown
       THEN UNCHANGED <<sourceMarkdown, scene, tags, previousMode,
                        toolbarVisible, timers>>
       ELSE /\ sourceMarkdown' = content
            /\ scene' = SceneOf(content)
            /\ SetDeco(ClearDecorations(
                    [Deco EXCEPT !.tags = NoTags(SceneOf(content))]))
    /\ UNCHANGED <<vditor, irContainer, currentMode>>
    /\ UNCHANGED <<selection, currentSelection, menuVisible, hideTimeout,
                   justAddedToChat, menuTimers, posted, outcome>>
    /\ UNCHANGED <<mapVars, hostVars>>

UpdateNext ==
    \/ InitMsg
    \/ TreeReady
    \/ \E d \in Decorations : ApplyMsg(d)
    \/ ClearMsg
    \/ \E i \in 1..Len(timers) : FireTimer(i)
    \/ \E content \in UpdateContents : UpdateMsg(content)

UpdateSpec == UpdateInit /\ [][UpdateNext]_vars

\* the step handles an 'update' message with the engine present
UpdateStep == Len(log') = Len(log) + 1 /\ Last(log').kind = "update" /\ vditor

(* C33: an 'update' message that is not of type init and whose content is
   the editor's buffer changes neither the buffer nor the classes on the
   nodes, the saved mode or the toolbar; one whose content differs makes
   its content the buffer and leaves no class on any node, no saved mode
   and the toolbar hidden. *)
C33_UpdateFrame ==
    [][UpdateStep =>
         IF Last(log').content = sourceMarkdown
         THEN UNCHANGED <<sourceMarkdown, tags, previousMode, toolbarVisible>>
         ELSE /\ sourceMarkdown' = Last(log').content
              /\ \A n \in DOMAIN tags' : tags'[n] = {}
              /\ previousMode' = NULL
              /\ ~toolbarVisible']_vars

----------------------------------------------------------------------------
(* MenuSpec: the event handlers of initSelectionContextMenu (lines
   1190-1439) on a buffer, with the user selecting text, pressing and
   releasing the mouse, pressing Escape and clicking the menu's buttons. *)

MenuTimer(kind, delay) == [kind |-> kind, delay |-> delay]

\* the part of the state the menu's handlers write
Menu == [selection |-> selection, currentSelection |-> currentSelection,
         menuVisible |-> menuVisible, hideTimeout |-> hideTimeout,
         justAddedToChat |-> justAddedToChat, menuTimers |-> menuTimers,
         posted |-> posted, outcome |-> outcome]

SetMenu(st) ==
    /\ selection' = st.selection
    /\ currentSelection' = st.currentSelection
    /\ menuVisible' = st.menuVisible
    /\ hideTimeout' = st.hideTimeout
    /\ justAddedToChat' = st.justAddedToChat
    /\ menuTimers' = st.menuTimers
    /\ posted' = st.posted
    /\ outcome' = st.outcome

\* clearTimeout(hideTimeout)
ClearHideTimer(ts) == SelectSeq(ts, LAMBDA t : t.kind # "hide")

\* showSelectionMenu(x, y)
ShowSelectionMenu(st) ==
    LET cleared == IF st.hideTimeout
                   THEN [st EXCEPT !.menuTimers = ClearHideTimer(@),
                                   !.hideTimeout = FALSE]
                   ELSE st
    IN  [cleared EXCEPT !.menuVisible = TRUE]

\* hideSelectionMenu()
HideSelectionMenu(st) ==
    LET cleared == IF st.hideTimeout
                   THEN [st EXCEPT !.menuTimers = ClearHideTimer(@)]
                   ELSE st
    IN  [cleared EXCEPT !.menuTimers = Append(@, MenuTimer("hide", HideDelay)),
                        !.hideTimeout = TRUE]

\* the mouseup callback showing the menu whatever the resolver returned
MouseUpCallbackAlwaysShow(st) ==
    IF st.justAddedToChat THEN st
    ELSE LET text == Trim(st.selection)
             found == GetSelectionLineRange(vditor, sourceMarkdown, text)
         IN  IF text # <<>>
             THEN ShowSelectionMenu(
                      [st EXCEPT !.currentSelection = found,
                                 !.outcome = IF found = NullSelection
                                             THEN "nomatch" ELSE "match"])
             ELSE HideSelectionMenu(st)

\* the callback the mouseup handler hands to setTimeout (lines 1222-1240)
MouseUpCallback(st) ==
    IF st.justAddedToChat THEN st
    ELSE LET text == Trim(st.selection)
             found == GetSelectionLineRange(vditor, sourceMarkdown, text)
             set == [st EXCEPT !.currentSelection = found,
                               !.outcome = IF found = NullSelection
                                           THEN "nomatch" ELSE "match"]
         IN  IF text # <<>>
             THEN IF found # NullSelection THEN ShowSelectionMenu(set) ELSE set
             ELSE HideSelectionMenu(st)

\* markSelectionAsAddedToChat(): how is "norange" (no selection range),
\* "wrapped" (the highlight span was inserted) or "failed"
MarkSelectionAsAddedToChat(st, how) ==
    CASE how = "norange" -> st
      [] how = "wrapped" ->
            [st EXCEPT !.menuTimers =
                Append(@, MenuTimer("clearSelection", ClearSelectionDelay))]
      [] how = "failed"  ->
            [st EXCEPT !.selection = <<>>, !.currentSelection = NullSelection]

SelectionMessage(command, info) ==
    [command |-> command, selectedText |-> info.text,
     range |-> [startLine |-> info.startLine, startChar |-> info.startChar,
                endLine |-> info.endLine, endChar |-> info.endChar]]

\* the click handler of a button of the menu (lines 1267-1327)
ButtonClick(st, command, how) ==
    IF st.currentSelection = NullSelection THEN st
    ELSE LET sent == [st EXCEPT
                        !.justAddedToChat = TRUE,
                        !.posted = Append(@, SelectionMessage(command, st.currentSelection)),
                        !.menuVisible = FALSE]
             cleared == IF sent.hideTimeout
                        THEN [sent EXCEPT !.menuTimers = ClearHideTimer(@),
                                          !.hideTimeout = FALSE]
                        ELSE sent
             marked == MarkSelectionAsAddedToChat(cleared, how)
         IN  [marked EXCEPT !.menuTimers =
                 Append(@, MenuTimer("resetFlag", FlagResetDelay))]

\* what a due timer of the menu runs
RunMenuTimer(st, t) ==
    CASE t.kind = "mouseup" -> MouseUpCallback(st)
      [] t.kind = "hide" -> [st EXCEPT !.menuVisible = FALSE]
      [] t.kind = "resetFlag" -> [st EXCEPT !.justAddedToChat = FALSE]
      [] t.kind = "clearSelection" ->
            [st EXCEPT !.selection = <<>>, !.currentSelection = NullSelection]

\* menu timer i can be the next to fire
MenuDue(i) ==
    \A j \in 1..(i - 1) : menuTimers[j].delay > menuTimers[i].delay

MenuDocs == { <<"a", "\n", "b">> }

MenuSelections == { <<>>, <<"b">>, <<"a", " ", "b">>, <<"x">> }

MenuCommands == {"add-to-ritivel", "quick-edit"}

MenuInit ==
    /\ vditor \in BOOLEAN
    /\ irContainer = vditor
    /\ currentMode = DefaultMode
    /\ previousMode = NULL
    /\ toolbarVisible = FALSE
    /\ scene \in ControllerScenes
    /\ tags = NoTags(scene)
    /\ timers = <<>>
    /\ log = <<>>
    /\ exhausted = FALSE
    /\ sourceMarkdown \in (IF vditor THEN MenuDocs ELSE {<<>>})
    /\ selection = <<>>
    /\ currentSelection = NullSelection
    /\ menuVisible = FALSE
    /\ hideTimeout = FALSE
    /\ justAddedToChat = FALSE
    /\ menuTimers = <<>>
    /\ posted = <<>>
    /\ outcome = "none"
    /\ MapperIdle
    /\ HostIdle

\* the user changes what is selected in the window
SelectionChange(text) ==
    /\ text # selection
    /\ selection' = text
    /\ UNCHANGED <<sourceMarkdown, currentSelection, menuVisible, hideTimeout,
                   justAddedToChat, menuTimers, posted, outcome>>
    /\ UNCHANGED <<decoVars, mapVars, hostVars>>

\* document mouseup (line 1220)
MouseUp ==
    /\ Len(menuTimers) < MaxMenuTimers
    /\ menuTimers' = Append(menuTimers, MenuTimer("mouseup", MouseUpDelay))
    /\ UNCHANGED <<sourceMarkdown, selection, currentSelection, menuVisible,
                   hideTimeout, justAddedToChat, posted, outcome>>
    /\ UNCHANGED <<decoVars, mapVars, hostVars>>

\* document mousedown (lines 1244-1256), inside the menu or not
MouseDown(inMenu) ==
    /\ inMenu => menuVisible
    /\ SetMenu(IF justAddedToChat
               THEN [Menu EXCEPT !.justAddedToChat = FALSE]
               ELSE IF ~inMenu THEN HideSelectionMenu(Menu) ELSE Menu)
    /\ UNCHANGED sourceMarkdown
    /\ UNCHANGED <<decoVars, mapVars, hostVars>>

\* document keydown with key Escape (lines 1259-1264)
KeyEscape ==
    /\ SetMenu(HideSelectionMenu(Menu))
    /\ UNCHANGED sourceMarkdown
    /\ UNCHANGED <<decoVars, mapVars, hostVars>>

\* click on a button of the visible menu
Click(command, how) ==
    /\ menuVisible
    /\ Len(menuTimers) < MaxMenuTimers
    /\ Len(posted) < MaxPosted
    /\ how = "norange" => selection = <<>>
    /\ SetMenu(ButtonClick(Menu, command, how))
    /\ UNCHANGED sourceMarkdown
    /\ UNCHANGED <<decoVars, mapVars, hostVars>>

\* a pending timer of the menu fires
FireMenuTimer(i) ==
    /\ MenuDue(i)
    /\ SetMenu(RunMenuTimer([Menu EXCEPT !.menuTimers = RemoveAt(@, i)],
                            menuTimers[i]))
    /\ UNCHANGED sourceMarkdown
    /\ UNCHANGED <<decoVars, mapVars, hostVars>>

MenuNext ==
    \/ \E text \in MenuSelections : SelectionChange(text)
    \/ MouseUp
    \/ \E inMenu \in BOOLEAN : MouseDown(inMenu)
    \/ KeyEscape
    \/ \E command \in MenuCommands :
          \E how \in {"norange", "wrapped", "failed"} : Click(command, how)
    \/ \E i \in 1..Len(menuTimers) : FireMenuTimer(i)

MenuSpec == MenuInit /\ [][MenuNext]_vars

\* this step is the mouseup callback running the resolver
ResolverRan(i) ==
    /\ FireMenuTimer(i)
    /\ menuTimers[i].kind = "mouseup"
    /\ ~justAddedToChat
    /\ Trim(selection) # <<>>

(* C19: when the resolver returns no match for the selection, the mouseup
   callback does not show the menu; the menu is only ever shown by a
   callback whose selection resolved; and a selection-action message is
   posted only while a resolved selection is held, with its text and
   range. *)
C19_NoMatchSuppressed ==
    /\ [][\A i \in 1..Len(menuTimers) :
            (ResolverRan(i) /\ currentSelection' = NullSelection)
                => (menuVisible' => menuVisible)]_vars
    /\ [][(~menuVisible /\ menuVisible')
            => (/\ outcome' = "match"
                /\ currentSelection' # NullSelection
                /\ currentSelection' =
                      GetSelectionLineRange(vditor, sourceMarkdown, Trim(selection)))]_vars
    /\ [][posted' # posted
            => (/\ currentSelection # NullSelection
                /\ posted' = Append(posted, Last(posted'))
                /\ Last(posted').selectedText = currentSelection.text
                /\ Last(posted').range.startLine = currentSelection.startLine
                /\ Last(posted').range.endLine = currentSelection.endLine)]_vars

\* a selection resolved and was sent; the next selection did not resolve,
\* the menu is hidden and nothing more was sent
C19_Witness ==
    /\ Len(posted) = 1
    /\ posted[1].selectedText = <<"b">>
    /\ selection = <<"x">>
    /\ outcome = "nomatch"
    /\ currentSelection = NullSelection
    /\ ~menuVisible
    /\ menuTimers = <<>>

(***************************************************************************)
(* The extension host.  EditorPanel keeps a registry of panels by URI; a   *)
(* panel follows its document (onDidChangeTextDocument with a debounce of  *)
(* 300 ms), takes the webview's messages and posts 'update' to it.  The    *)
(* awaits of the handlers are points where other handlers run, so a        *)
(* handler with an await is one action per part.                           *)
(***************************************************************************)
MaxPanels == 3

MaxHostInputs == 3

MaxOpening == 2

PanelIds == 1..MaxPanels

Uris == {"u1", "u2"}

\* texts of the document and of the webview's editor
HostContents == {<<>>, <<"a">>, <<"b">>}

NoPanels == [p \in PanelIds |-> NoUri]

NoEntries == [u \in Uris |-> 0]

\* the panels that exist and whose dispose() has not run
LivePanels == {p \in PanelIds : panelUri[p] # NoUri /\ p \notin disposedPanels}

\* the panel the next `new EditorPanel` makes
NewPanel == CHOOSE p \in PanelIds :
                /\ panelUri[p] = NoUri
                /\ \A q \in PanelIds : q < p => panelUri[q] # NoUri

\* EditorPanel.findPanelByUri(uri)
findPanelByUri(uri) == panels[uri]

\* the constructor, then EditorPanel.registerPanel(uri, panel)
CreateAndRegister(uri) ==
    /\ panelUri' = [panelUri EXCEPT ![NewPanel] = uri]
    /\ panels' = [panels EXCEPT ![uri] = NewPanel]
    /\ currentPanel' = NewPanel

\* dispose() removing only the panel's own entry (not the program's)
DisposeOwnEntry(p) ==
    /\ panels' = [u \in Uris |-> IF panels[u] = p THEN 0 ELSE panels[u]]
    /\ currentPanel' = IF currentPanel = p THEN 0 ELSE currentPanel
    /\ disposedPanels' = disposedPanels \cup {p}

\* dispose(): the registry's part
DisposeRegistry(p) ==
    /\ panels' = [panels EXCEPT ![panelUri[p]] = 0]
    /\ currentPanel' = IF currentPanel = p THEN 0 ELSE currentPanel
    /\ disposedPanels' = disposedPanels \cup {p}

\* a message handed to postMessage of panel p's webview
HostMsg(p, command, type, content, decorations) ==
    [panel |-> p, command |-> command, type |-> type, content |-> content,
     decorations |-> decorations]

\* _update(props): the 'update' message with the document's text
UpdateMessage(p, type) == HostMsg(p, "update", type, docText, NoDecorations)

\* the parameters of markdown-editor.applyDecorations
NoParams == [missing |-> TRUE]

CmdParams ==
    {NoParams} \cup [uri : Uris \cup {NoUri}, decorations : {NoDecorations, CSA}]

ParamsComplete(params) ==
    /\ params # NoParams
    /\ params.uri # NoUri
    /\ params.decorations # NoDecorations

\* apply-decorations posted before the content (not the program's order)
ApplyDecorationsPostsSwapped(p, decorations) ==
    << HostMsg(p, "apply-decorations", "none", <<>>, decorations),
       UpdateMessage(p, "update") >>

\* what the command posts to the panel it found
ApplyDecorationsPosts(p, decorations) ==
    << UpdateMessage(p, "update"),
       HostMsg(p, "apply-decorations", "none", <<>>, decorations) >>

\* the webview's script, left alone by the host's specifications
WebviewIdle ==
    /\ vditor = FALSE
    /\ irContainer = FALSE
    /\ currentMode = DefaultMode
    /\ previousMode = NULL
    /\ toolbarVisible = FALSE
    /\ scene = 1
    /\ tags = NoTags(1)
    /\ timers = <<>>
    /\ log = <<>>
    /\ exhausted = FALSE
    /\ SelectionIdle
    /\ MapperIdle

\* one panel, just constructed for the document u1
SyncInit ==
    /\ WebviewIdle
    /\ panelUri = [NoPanels EXCEPT ![1] = "u1"]
    /\ disposedPanels = {}
    /\ panels = [NoEntries EXCEPT !["u1"] = 1]
    /\ currentPanel = 1
    /\ opening = <<>>
    /\ docText \in HostContents
    /\ docSaved = docText
    /\ webviewText = <<>>
    /\ panelActive \in BOOLEAN
    /\ initialized = FALSE
    /\ readyPending = TRUE
    /\ fallbackTimer = TRUE
    /\ lastEditFromWebview = FALSE
    /\ textEditTimer = FALSE
    /\ changeEvents = <<>>
    /\ pendingEdits = <<>>
    /\ hostPosted = <<>>
    /\ keep = KeepIdle
    /\ hostLog = <<>>
    /\ unpushed = FALSE
    /\ lastInput = NoInput
    /\ hostInputs = 0

registryVars == <<panelUri, disposedPanels, panels, currentPanel, opening>>

keepVars == <<docSaved, webviewText, keep, hostLog>>

\* the webview's 'ready'
ReadyMsg ==
    /\ readyPending
    /\ 1 \in LivePanels
    /\ readyPending' = FALSE
    /\ initialized' = TRUE
    /\ hostPosted' = Append(hostPosted, UpdateMessage(1, "init"))
    /\ unpushed' = FALSE
    /\ UNCHANGED <<decoVars, selVars, mapVars, registryVars, keepVars>>
    /\ UNCHANGED <<docText, panelActive, fallbackTimer, lastEditFromWebview,
                   textEditTimer, changeEvents, pendingEdits, lastInput, hostInputs>>

\* the fallback timer of _init, 1000 ms after the construction
FallbackFires ==
    /\ fallbackTimer
    /\ fallbackTimer' = FALSE
    /\ IF ~initialized
       THEN /\ hostPosted' = Append(hostPosted, UpdateMessage(1, "init"))
            /\ initialized' = TRUE
            /\ unpushed' = FALSE
       ELSE UNCHANGED <<hostPosted, initialized, unpushed>>
    /\ UNCHANGED <<decoVars, selVars, mapVars, registryVars, keepVars>>
    /\ UNCHANGED <<docText, panelActive, readyPending, lastEditFromWebview,
                   textEditTimer, changeEvents, pendingEdits, lastInput, hostInputs>>

\* the panel gains or loses the focus
SetActive ==
    /\ 1 \in LivePanels
    /\ hostInputs < MaxHostInputs
    /\ hostInputs' = hostInputs + 1
    /\ lastInput' = [kind |-> "focus"]
    /\ panelActive' = ~panelActive
    /\ UNCHANGED <<decoVars, selVars, mapVars, registryVars, keepVars>>
    /\ UNCHANGED <<docText, initialized, readyPending, fallbackTimer,
                   lastEditFromWebview, textEditTimer, changeEvents,
                   pendingEdits, hostPosted, unpushed>>

\* the document is changed from outside the webview
ExternalChange(content) ==
    /\ hostInputs < MaxHostInputs
    /\ content # docText
    /\ hostInputs' = hostInputs + 1
    /\ lastInput' = [kind |-> "change"]
    /\ docText' = content
    /\ changeEvents' = Append(changeEvents, "external")
    /\ unpushed' = TRUE
    /\ UNCHANGED <<decoVars, selVars, mapVars, registryVars, keepVars>>
    /\ UNCHANGED <<panelActive, initialized, readyPending, fallbackTimer,
                   lastEditFromWebview, textEditTimer, pendingEdits, hostPosted>>

\* the webview's 'edit', up to the await of workspace.applyEdit
EditMsg(content) ==
    /\ 1 \in LivePanels
    /\ hostInputs < MaxHostInputs
    /\ hostInputs' = hostInputs + 1
    /\ lastInput' = [kind |-> "edit"]
    /\ IF panelActive
       THEN /\ lastEditFromWebview' = TRUE
            /\ pendingEdits' = Append(pendingEdits, content)
       ELSE UNCHANGED <<lastEditFromWebview, pendingEdits>>
    /\ UNCHANGED <<decoVars, selVars, mapVars, registryVars, keepVars>>
    /\ UNCHANGED <<docText, panelActive, initialized, readyPending, fallbackTimer,
                   textEditTimer, changeEvents, hostPosted, unpushed>>

\* workspace.applyEdit settles: applied (the document changes and fires
\* its event) or refused (it resolves false, say on a stale version)
ApplyEdit(ok) ==
    /\ pendingEdits # <<>>
    /\ pendingEdits' = Tail(pendingEdits)
    /\ IF ok
       THEN /\ docText' = Head(pendingEdits)
            /\ changeEvents' = Append(changeEvents, "webview")
       ELSE UNCHANGED <<docText, changeEvents>>
    /\ UNCHANGED <<decoVars, selVars, mapVars, registryVars, keepVars>>
    /\ UNCHANGED <<panelActive, initialized, readyPending, fallbackTimer,
                   lastEditFromWebview, textEditTimer, hostPosted, unpushed,
                   lastInput, hostInputs>>

\* the listener of onDidChangeTextDocument (disposed with the panel)
DeliverChange ==
    /\ changeEvents # <<>>
    /\ changeEvents' = Tail(changeEvents)
    /\ IF 1 \notin LivePanels
       THEN UNCHANGED <<lastEditFromWebview, textEditTimer>>
       ELSE IF panelActive /\ lastEditFromWebview
            THEN /\ lastEditFromWebview' = FALSE
                 /\ UNCHANGED textEditTimer
            ELSE /\ lastEditFromWebview' = FALSE
                 /\ textEditTimer' = TRUE
    /\ UNCHANGED <<decoVars, selVars, mapVars, registryVars, keepVars>>
    /\ UNCHANGED <<docText, panelActive, initialized, readyPending, fallbackTimer,
                   pendingEdits, hostPosted, unpushed, lastInput, hostInputs>>

\* textEditTimer fires: this._update()
DebounceFires ==
    /\ textEditTimer
    /\ textEditTimer' = FALSE
    /\ hostPosted' = Append(hostPosted, UpdateMessage(1, "none"))
    /\ unpushed' = FALSE
    /\ UNCHANGED <<decoVars, selVars, mapVars, registryVars, keepVars>>
    /\ UNCHANGED <<docText, panelActive, initialized, readyPending, fallbackTimer,
                   lastEditFromWebview, changeEvents, pendingEdits, lastInput,
                   hostInputs>>

\* textEditTimer cleared by dispose() (not the program's)
TimerAfterDisposeCleared(timer) == FALSE

\* dispose() leaves textEditTimer, which is not among _disposables
TimerAfterDispose(timer) == timer

\* the panel or its document is closed: dispose()
Dispose ==
    /\ 1 \in LivePanels
    /\ DisposeRegistry(1)
    /\ fallbackTimer' = FALSE
    /\ textEditTimer' = TimerAfterDispose(textEditTimer)
    /\ panelActive' = FALSE
    /\ lastInput' = [kind |-> "close"]
    /\ UNCHANGED <<decoVars, selVars, mapVars, keepVars>>
    /\ UNCHANGED <<panelUri, opening, docText, initialized, readyPending,
                   lastEditFromWebview, changeEvents, pendingEdits, hostPosted,
                   unpushed, hostInputs>>

\* the command markdown-editor.applyDecorations
ApplyDecorationsCmd(params) ==
    /\ hostInputs < MaxHostInputs
    /\ hostInputs' = hostInputs + 1
    /\ lastInput' = [kind |-> "command", params |-> params]
    /\ IF ParamsComplete(params) /\ findPanelByUri(params.uri) # 0
       THEN /\ hostPosted' = hostPosted \o
                  ApplyDecorationsPosts(findPanelByUri(params.uri), params.decorations)
            /\ unpushed' = FALSE
       ELSE UNCHANGED <<hostPosted, unpushed>>
    /\ UNCHANGED <<decoVars, selVars, mapVars, registryVars, keepVars>>
    /\ UNCHANGED <<docText, panelActive, initialized, readyPending, fallbackTimer,
                   lastEditFromWebview, textEditTimer, changeEvents, pendingEdits>>

SyncNext ==
    \/ ReadyMsg
    \/ FallbackFires
    \/ SetActive
    \/ \E content \in HostContents : ExternalChange(content)
    \/ \E content \in HostContents : EditMsg(content)
    \/ \E ok \in BOOLEAN : ApplyEdit(ok)
    \/ DeliverChange
    \/ DebounceFires
    \/ Dispose
    \/ \E params \in CmdParams : ApplyDecorationsCmd(params)

SyncSpec == SyncInit /\ [][SyncNext]_vars

\* the messages posted by the step
NewPosts == SubSeq(hostPosted', Len(hostPosted) + 1, Len(hostPosted'))

CommandStep ==
    /\ hostInputs' = hostInputs + 1
    /\ lastInput'.kind = "command"

\* C34: each markdown-editor.applyDecorations command that has its
\* parameters and finds a panel registered for the URI posts to that panel
\* the 'update' with the document's text and then, after it,
\* 'apply-decorations' with the command's decorations, and nothing else;
\* without parameters, URI, decorations or registered panel it posts nothing.
C34_UpdateBeforeApply ==
    [][CommandStep =>
         LET params == lastInput'.params
         IN  IF ParamsComplete(params) /\ findPanelByUri(params.uri) # 0
             THEN /\ Len(NewPosts) = 2
                  /\ NewPosts[1] = HostMsg(findPanelByUri(params.uri), "update",
                                           "update", docText, NoDecorations)
                  /\ NewPosts[2] = HostMsg(findPanelByUri(params.uri),
                                           "apply-decorations", "none", <<>>,
                                           params.decorations)
             ELSE NewPosts = <<>>]_vars

C34_Witness ==
    /\ lastInput = [kind |-> "command", params |-> [uri |-> "u1", decorations |-> CSA]]
    /\ Len(hostPosted) >= 3
    /\ hostPosted[Len(hostPosted)].command = "apply-decorations"
    /\ hostPosted[Len(hostPosted) - 1].command = "update"

C34_WitnessNoPanel ==
    /\ lastInput = [kind |-> "command", params |-> [uri |-> "u1", decorations |-> CSA]]
    /\ 1 \in disposedPanels
    /\ hostInputs = 1
    /\ Len(hostPosted) = 1

\* the event loop delivers queued events, settles applyEdit and fires timers
SyncFairSpec ==
    /\ SyncSpec
    /\ WF_vars(DeliverChange)
    /\ WF_vars(DebounceFires)
    /\ WF_vars(\E ok \in BOOLEAN : ApplyEdit(ok))

\* C35: a change made to the document from outside the webview, while the
\* panel lives, is eventually followed by an 'update' carrying the
\* document's text to the webview (or by the panel's disposal), whether or
\* not the panel is active and whatever webview edits came before.
C35_ExternalChangePushed ==
    (unpushed /\ 1 \in LivePanels) ~> (~unpushed \/ 1 \notin LivePanels)

\* C39: a step taken after dispose() has run for a panel posts no message
\* to that panel's webview.
C39_NoPostAfterDispose ==
    [][\A i \in 1..Len(NewPosts) : NewPosts[i].panel \notin disposedPanels]_vars

(***************************************************************************)
(* The handler of 'cline-keep-changes'.  It asks the webview for its       *)
(* content, writes it to the document when it differs, saves, executes     *)
(* cline.acceptFileChanges and refreshes the webview 150 ms later; each    *)
(* await (the reply or its 300 ms timeout, applyEdit, save, the command)   *)
(* ends an action.  hostLog lists the calls of the running handler.        *)
(***************************************************************************)
NoReply == [kind |-> "pending"]

\* the handler after its first lines: baseline is currentDocContent
KeepWaiting(baseline) ==
    [stage |-> "waiting", baseline |-> baseline, content |-> baseline,
     reply |-> NoReply]

\* what the 'current-content' listener resolves the promise with
ReplyContent(content, baseline) ==
    IF Len(content) > 0 THEN content ELSE baseline

\* the write made for every non-empty content (not the program's)
KeepSyncsNonEmpty(content, baseline) == Len(content) > 0

\* the condition of the write to the document
KeepSyncs(content, baseline) ==
    /\ Len(content) > 0
    /\ content # baseline

\* one panel showing the document u1, the webview's editor holding some text
KeepInit ==
    /\ WebviewIdle
    /\ panelUri = [NoPanels EXCEPT ![1] = "u1"]
    /\ disposedPanels = {}
    /\ panels = [NoEntries EXCEPT !["u1"] = 1]
    /\ currentPanel = 1
    /\ opening = <<>>
    /\ docText \in HostContents
    /\ docSaved \in HostContents
    /\ webviewText \in HostContents
    /\ panelActive = TRUE
    /\ initialized = TRUE
    /\ readyPending = FALSE
    /\ fallbackTimer = FALSE
    /\ lastEditFromWebview = FALSE
    /\ textEditTimer = FALSE
    /\ changeEvents = <<>>
    /\ pendingEdits = <<>>
    /\ hostPosted = <<>>
    /\ keep = KeepIdle
    /\ hostLog = <<>>
    /\ unpushed = FALSE
    /\ lastInput = NoInput
    /\ hostInputs = 0

syncVars == <<panelActive, initialized, readyPending, fallbackTimer,
              lastEditFromWebview, textEditTimer, changeEvents, pendingEdits,
              unpushed>>

\* lines 466-478 on the document's text: save() is called, or the handler
\* returns with an error when the text is empty
SaveOrReturn(k, text, calls) ==
    IF Len(text) > 0
    THEN /\ keep' = [k EXCEPT !.stage = "saving"]
         /\ hostLog' = Append(calls, [op |-> "save"])
    ELSE /\ keep' = KeepIdle
         /\ hostLog' = Append(calls, [op |-> "empty"])

\* the promise is resolved: lines 448-478 up to the next await
KeepResolved(reply, resolved) ==
    LET k == [keep EXCEPT !.reply = reply, !.content = resolved]
    IN  IF KeepSyncs(resolved, keep.baseline)
        THEN /\ keep' = [k EXCEPT !.stage = "applying"]
             /\ hostLog' = Append(hostLog, [op |-> "applyEdit"])
        ELSE SaveOrReturn(k, docText, hostLog)

\* the webview's 'cline-keep-changes'
KeepMsg ==
    /\ keep = KeepIdle
    /\ hostInputs < MaxHostInputs
    /\ hostInputs' = hostInputs + 1
    /\ lastInput' = [kind |-> "keep"]
    /\ keep' = KeepWaiting(docText)
    /\ hostLog' = <<>>
    /\ hostPosted' = Append(hostPosted,
                            HostMsg(1, "get-current-content", "none", <<>>, NoDecorations))
    /\ UNCHANGED <<decoVars, selVars, mapVars, registryVars, syncVars>>
    /\ UNCHANGED <<docText, docSaved, webviewText>>

\* the webview answers 'get-current-content' with vditor.getValue()
WebviewReply ==
    /\ keep.stage = "waiting"
    /\ KeepResolved([kind |-> "reply", content |-> webviewText],
                    ReplyContent(webviewText, keep.baseline))
    /\ UNCHANGED <<decoVars, selVars, mapVars, registryVars, syncVars>>
    /\ UNCHANGED <<docText, docSaved, webviewText, hostPosted, lastInput, hostInputs>>

\* no answer within 300 ms
ReplyTimeout ==
    /\ keep.stage = "waiting"
    /\ KeepResolved([kind |-> "timeout"], keep.baseline)
    /\ UNCHANGED <<decoVars, selVars, mapVars, registryVars, syncVars>>
    /\ UNCHANGED <<docText, docSaved, webviewText, hostPosted, lastInput, hostInputs>>

\* workspace.applyEdit settles (applied or refused), then lines 466-478
KeepApplied(ok) ==
    /\ keep.stage = "applying"
    /\ docText' = IF ok THEN keep.content ELSE docText
    /\ SaveOrReturn(keep, docText', hostLog)
    /\ UNCHANGED <<decoVars, selVars, mapVars, registryVars, syncVars>>
    /\ UNCHANGED <<docSaved, webviewText, hostPosted, lastInput, hostInputs>>

\* this._document.save() resolves (true: written, false: the save failed),
\* then cline.acceptFileChanges is executed
KeepSaved(ok) ==
    /\ keep.stage = "saving"
    /\ docSaved' = IF ok THEN docText ELSE docSaved
    /\ hostLog' = hostLog \o << [op |-> IF ok THEN "saved" ELSE "unsaved"],
                                [op |-> "accept"] >>
    /\ keep' = [keep EXCEPT !.stage = "accepting"]
    /\ UNCHANGED <<decoVars, selVars, mapVars, registryVars, syncVars>>
    /\ UNCHANGED <<docText, webviewText, hostPosted, lastInput, hostInputs>>

\* the command settles: done (timer of 484-491) or thrown (catch, 492-500)
KeepAccepted(ok) ==
    /\ keep.stage = "accepting"
    /\ keep' = IF ok THEN [keep EXCEPT !.stage = "refresh"]
               ELSE IF Len(docText) > 0 THEN [keep EXCEPT !.stage = "refreshCatch"]
               ELSE KeepIdle
    /\ UNCHANGED <<decoVars, selVars, mapVars, registryVars, syncVars>>
    /\ UNCHANGED <<docText, docSaved, webviewText, hostPosted, hostLog,
                   lastInput, hostInputs>>

\* the 150 ms timer: updateContent()
KeepRefresh ==
    /\ keep.stage \in {"refresh", "refreshCatch"}
    /\ keep' = KeepIdle
    /\ hostPosted' = IF keep.stage = "refreshCatch" \/ Len(docText) > 0
                     THEN Append(hostPosted, UpdateMessage(1, "update"))
                     ELSE hostPosted
    /\ UNCHANGED <<decoVars, selVars, mapVars, registryVars, syncVars>>
    /\ UNCHANGED <<docText, docSaved, webviewText, hostLog, lastInput, hostInputs>>

\* the document is changed from outside the handler
KeepDocChange(content) ==
    /\ hostInputs < MaxHostInputs
    /\ content # docText
    /\ hostInputs' = hostInputs + 1
    /\ lastInput' = [kind |-> "change"]
    /\ docText' = content
    /\ UNCHANGED <<decoVars, selVars, mapVars, registryVars, syncVars>>
    /\ UNCHANGED <<docSaved, webviewText, hostPosted, keep, hostLog>>

KeepNext ==
    \/ KeepMsg
    \/ WebviewReply
    \/ ReplyTimeout
    \/ \E ok \in BOOLEAN : KeepApplied(ok)
    \/ \E ok \in BOOLEAN : KeepSaved(ok)
    \/ \E ok \in BOOLEAN : KeepAccepted(ok)
    \/ KeepRefresh
    \/ \E content \in HostContents : KeepDocChange(content)

KeepSpec == KeepInit /\ [][KeepNext]_vars

\* the calls of the running handler
Called(op) == \E i \in 1..Len(hostLog) : hostLog[i].op = op

\* C36: cline.acceptFileChanges is executed only when the document has
\* been saved before it in the same run, and a run that finds the
\* document's text empty at save time calls neither save nor the command.
C36_AcceptAfterSave ==
    /\ \A i \in 1..Len(hostLog) :
           hostLog[i].op = "accept" =>
               \E j \in 1..(i - 1) : hostLog[j].op = "saved"
    /\ Called("empty") => ~Called("save") /\ ~Called("accept")

\* a step of the handler
KeepStep == keep' # keep /\ keep # KeepIdle

\* C37: the handler changes the document's text only by writing the
\* webview's reply, and only a reply that is non-empty and differs from the
\* document as the handler read it; after an empty reply, no reply within
\* 300 ms or a reply equal to the document no write is issued at all.
C37_WriteOnlyNewContent ==
    [][KeepStep =>
         /\ docText' # docText =>
                /\ keep.reply.kind = "reply"
                /\ docText' = keep.reply.content
                /\ keep.reply.content # <<>>
                /\ keep.reply.content # keep.baseline
         /\ (/\ keep' # KeepIdle
             /\ \/ keep'.reply.kind = "timeout"
                \/ /\ keep'.reply.kind = "reply"
                   /\ keep'.reply.content \in {<<>>, keep'.baseline})
            => ~Called("applyEdit")']_vars

C37_Witness ==
    /\ Called("applyEdit")
    /\ keep.stage = "saving"
    /\ keep.baseline = <<"a">>
    /\ docText = <<"b">>

C37_WitnessEmptyReply ==
    /\ keep # KeepIdle
    /\ keep.reply = [kind |-> "reply", content |-> <<>>]
    /\ keep.stage = "saving"
    /\ docText = <<"a">>

(***************************************************************************)
(* The registry of panels.  Panels are made by the custom editor provider  *)
(* (resolveCustomTextEditor, once for each editor opened on a document)    *)
(* and by createOrShow, which awaits openTextDocument between its checks   *)
(* and the registration; they are disposed when the panel or its document  *)
(* is closed.                                                              *)
(***************************************************************************)
RegistryInit ==
    /\ WebviewIdle
    /\ panelUri = NoPanels
    /\ disposedPanels = {}
    /\ panels = NoEntries
    /\ currentPanel = 0
    /\ opening = <<>>
    /\ docText = <<>>
    /\ docSaved = <<>>
    /\ webviewText = <<>>
    /\ panelActive = FALSE
    /\ initialized = FALSE
    /\ readyPending = FALSE
    /\ fallbackTimer = FALSE
    /\ lastEditFromWebview = FALSE
    /\ textEditTimer = FALSE
    /\ changeEvents = <<>>
    /\ pendingEdits = <<>>
    /\ hostPosted = <<>>
    /\ keep = KeepIdle
    /\ hostLog = <<>>
    /\ unpushed = FALSE
    /\ lastInput = NoInput
    /\ hostInputs = 0

panelVars == <<docText, docSaved, webviewText, syncVars, hostPosted, keep,
               hostLog, lastInput, hostInputs>>

HasNewPanel == \E p \in PanelIds : panelUri[p] = NoUri

\* the provider's resolveCustomTextEditor(document, webviewPanel)
ResolveCustomTextEditor(uri) ==
    /\ HasNewPanel
    /\ CreateAndRegister(uri)
    /\ UNCHANGED <<disposedPanels, opening>>
    /\ UNCHANGED <<decoVars, selVars, mapVars, panelVars>>

\* createOrShow(context, uri) up to the await of openTextDocument
CreateOrShow(uri) ==
    /\ IF panels[uri] # 0
       THEN /\ currentPanel' = panels[uri]
            /\ UNCHANGED <<panels, disposedPanels, opening>>
       ELSE /\ Len(opening) < MaxOpening
            /\ opening' = Append(opening, uri)
            /\ IF currentPanel # 0 /\ panelUri[currentPanel] # uri
               THEN DisposeRegistry(currentPanel)
               ELSE UNCHANGED <<panels, currentPanel, disposedPanels>>
    /\ UNCHANGED panelUri
    /\ UNCHANGED <<decoVars, selVars, mapVars, panelVars>>

\* openTextDocument resolves: the panel is made and registered
OpenDone(i) ==
    /\ i \in 1..Len(opening)
    /\ HasNewPanel
    /\ CreateAndRegister(opening[i])
    /\ opening' = RemoveAt(opening, i)
    /\ UNCHANGED disposedPanels
    /\ UNCHANGED <<decoVars, selVars, mapVars, panelVars>>

\* createOrShow(context) without a uri, the active editor showing `uri`
CreateOrShowActive(uri) ==
    /\ currentPanel = 0
    /\ HasNewPanel
    /\ CreateAndRegister(uri)
    /\ UNCHANGED <<disposedPanels, opening>>
    /\ UNCHANGED <<decoVars, selVars, mapVars, panelVars>>

\* the panel p or its document is closed: dispose()
DisposePanel(p) ==
    /\ p \in LivePanels
    /\ DisposeRegistry(p)
    /\ UNCHANGED <<panelUri, opening>>
    /\ UNCHANGED <<decoVars, selVars, mapVars, panelVars>>

RegistryNext ==
    \/ \E uri \in Uris : ResolveCustomTextEditor(uri)
    \/ \E uri \in Uris : CreateOrShow(uri)
    \/ \E i \in 1..MaxOpening : OpenDone(i)
    \/ \E uri \in Uris : CreateOrShowActive(uri)
    \/ \E p \in PanelIds : DisposePanel(p)

RegistrySpec == RegistryInit /\ [][RegistryNext]_vars

\* C38: findPanelByUri returns only panels whose dispose() has not run, and
\* a step that disposes panels removes from the registry no panel other
\* than those it disposes: a live panel that findPanelByUri returned before
\* the step is still returned after it.
C38_RegistrySound ==
    /\ [](\A uri \in Uris :
            findPanelByUri(uri) # 0 => findPanelByUri(uri) \in LivePanels)
    /\ [][disposedPanels' # disposedPanels =>
            \A uri \in Uris :
                (panels[uri] # 0 /\ panels[uri] \notin disposedPanels')
                    => panels'[uri] = panels[uri]]_vars

====
